---- MODULE Spec2Model ----
(***************************************************************************)
(* A model of prompt-versioner: the semantic-version resolver of           *)
(* prompt_versioner/core.py (PromptVersioner._parse_version,               *)
(* _format_version, _calculate_next_version) and the version store it      *)
(* drives (PromptVersioner.save_version, rollback, import_prompt,          *)
(* log_metrics, add_annotation over PromptStorage's SQLite tables).        *)
(*                                                                         *)
(* A Python str is a sequence of one-character strings, so that parsing    *)
(* and formatting are computed character by character.  Python's None is   *)
(* NoneStr for an Optional[str], NoNumber for an Optional[int] and the     *)
(* string "None" for an Optional enum member.                              *)
(***************************************************************************)
EXTENDS Integers, Sequences, FiniteSets, TLC

VARIABLES
    current_version,  \* resolver: the current_version argument of the next call
    last,             \* resolver: the last _calculate_next_version call, or NoCall
    prev,             \* resolver: the call before it, or NoCall
    prompt_versions,  \* table prompt_versions: a set of rows
    prompt_metrics,   \* table prompt_metrics: a set of rows
    annotations,      \* table annotations: a set of rows
    seq,              \* sqlite_sequence: the last AUTOINCREMENT id of each table
    clock,            \* the UTC clock read by PromptStorage.save_version
    git,              \* 0: no git tracker; k > 0: the tracker's HEAD is commit k
    op,               \* the last call made on the PromptVersioner and its outcome
    ncalls,           \* the number of calls made so far
    old_text,         \* inline diff: the old_text argument
    new_text,         \* inline diff: the new_text argument
    inline,           \* inline diff: the last create_inline_diff call's result
    engine,           \* diff engine: the last compute_diff call and what came of it
    handlers,         \* monitor: the registered alert handlers, in registration order
    mon,              \* monitor: the check_regression call in progress, if any
    invocations,      \* monitor: the handler invocations made so far, in order
    returned,         \* monitor: the check_regression calls that have returned
    tracker,          \* MetricsTracker: the last detect_regression call and its result
    runner,           \* PromptTestRunner: the last run_test call and its result
    abtest,           \* ABTest: the logged results and the last call
    context           \* TestContext: the context entered, if any, and its metrics

resolverVars == <<current_version, last, prev>>

storeVars == <<prompt_versions, prompt_metrics, annotations, seq, clock, git, op, ncalls>>

diffVars == <<old_text, new_text, inline, engine>>

monitorVars == <<handlers, mon, invocations, returned>>

toolVars == <<tracker, runner, abtest, context>>

vars == <<current_version, last, prev,
          prompt_versions, prompt_metrics, annotations, seq, clock, git, op, ncalls,
          old_text, new_text, inline, engine,
          handlers, mon, invocations, returned, tracker, runner, abtest,
          context>>

-----------------------------------------------------------------------------
(* Python values *)

NoneStr == <<"<None>">>

NoNumber == -1

DigitChars == <<"0", "1", "2", "3", "4", "5", "6", "7", "8", "9">>

IsDigit(c) == \E i \in 1..10 : DigitChars[i] = c

DigitVal(c) == (CHOOSE i \in 1..10 : DigitChars[i] = c) - 1

AlphaChars ==
    { "A", "B", "C", "D", "E", "F", "G", "H", "I", "J", "K", "L", "M",
      "N", "O", "P", "Q", "R", "S", "T", "U", "V", "W", "X", "Y", "Z",
      "a", "b", "c", "d", "e", "f", "g", "h", "i", "j", "k", "l", "m",
      "n", "o", "p", "q", "r", "s", "t", "u", "v", "w", "x", "y", "z" }

IsAlpha(c) == c \in AlphaChars

\* int(s) for a non-empty string of decimal digits (leading zeros allowed).
RECURSIVE StrToInt(_)
StrToInt(s) ==
    IF Len(s) = 0 THEN 0
    ELSE 10 * StrToInt(SubSeq(s, 1, Len(s) - 1)) + DigitVal(s[Len(s)])

\* str(n) / f"{n}" for an int n.
RECURSIVE IntToStr(_)
IntToStr(n) ==
    IF n < 0 THEN <<"-">> \o IntToStr(0 - n)
    ELSE IF n < 10 THEN <<DigitChars[n + 1]>>
    ELSE IntToStr(n \div 10) \o <<DigitChars[(n % 10) + 1]>>

\* The number of characters of s from position i on that a greedy
\* character-class repetition (\d+ or [A-Za-z]+) consumes.
RECURSIVE DigitRun(_, _)
DigitRun(s, i) ==
    IF i <= Len(s) /\ IsDigit(s[i]) THEN 1 + DigitRun(s, i + 1) ELSE 0

RECURSIVE AlphaRun(_, _)
AlphaRun(s, i) ==
    IF i <= Len(s) /\ IsAlpha(s[i]) THEN 1 + AlphaRun(s, i + 1) ELSE 0

\* Python's "$" (no re.MULTILINE): the end of the string, or just before a
\* newline that is the last character of the string.
AtDollar(s, i) ==
    \/ i = Len(s) + 1
    \/ i = Len(s) /\ s[i] = "\n"

-----------------------------------------------------------------------------
(* enums of core.py *)

VersionBump == {"MAJOR", "MINOR", "PATCH"}

PreReleaseLabel == {"SNAPSHOT", "MILESTONE", "RC", "STABLE"}

\* PreReleaseLabel.<member>.value, for the members whose value is a str.
LabelValue(label) ==
    CASE label = "SNAPSHOT"  -> <<"S", "N", "A", "P", "S", "H", "O", "T">>
      [] label = "MILESTONE" -> <<"M">>
      [] label = "RC"        -> <<"R", "C">>

-----------------------------------------------------------------------------
(* PromptVersioner._parse_version *)

NoMatch == [matched |-> FALSE, major |-> 0, minor |-> 0, patch |-> 0,
            pre_label |-> NoneStr, pre_number |-> NoNumber]

\* re.match(r"^(\d+)\.(\d+)\.(\d+)(?:-([A-Za-z]+)(?:\.(\d+))?)?$", s).
\* Every repetition is followed by a character outside its class (or by "$"),
\* so the greedy match is the only candidate.  The match is followed group
\* by group: a, b, c, l and n are the lengths of the digit and letter runs.

\* "(?:\.(\d+))?$" with el at the ".": the pre-release number, then "$".
MatchNumber(s, el, labelled, n) ==
    IF n = 0 THEN NoMatch
    ELSE IF AtDollar(s, el + 1 + n)
         THEN [labelled EXCEPT !.pre_number = StrToInt(SubSeq(s, el + 1, el + n))]
    ELSE NoMatch

\* "(?:-([A-Za-z]+)...)?$" with e3 at the "-": the label, then "$" or ".".
MatchLabel(s, e3, triple, l) ==
    IF l = 0 THEN NoMatch
    ELSE IF AtDollar(s, e3 + 1 + l)
         THEN [triple EXCEPT !.pre_label = SubSeq(s, e3 + 1, e3 + l)]
    ELSE IF s[e3 + 1 + l] # "." THEN NoMatch
    ELSE MatchNumber(s, e3 + 1 + l,
                     [triple EXCEPT !.pre_label = SubSeq(s, e3 + 1, e3 + l)],
                     DigitRun(s, e3 + l + 2))

\* What follows the third number, from position e3: "$" or a "-".
MatchTail(s, e3, triple) ==
    IF AtDollar(s, e3) THEN triple
    ELSE IF s[e3] # "-" THEN NoMatch
    ELSE MatchLabel(s, e3, triple, AlphaRun(s, e3 + 1))

\* The third "(\d+)", from position a + b + 3.
MatchPatch(s, a, b, c) ==
    IF c = 0 THEN NoMatch
    ELSE MatchTail(s, a + b + c + 3,
                   [matched |-> TRUE,
                    major |-> StrToInt(SubSeq(s, 1, a)),
                    minor |-> StrToInt(SubSeq(s, a + 2, a + b + 1)),
                    patch |-> StrToInt(SubSeq(s, a + b + 3, a + b + c + 2)),
                    pre_label |-> NoneStr, pre_number |-> NoNumber])

\* The second "(\d+)", from position a + 2, and the "." after it.
MatchMinor(s, a, b) ==
    IF b = 0 \/ a + 2 + b > Len(s) \/ s[a + 2 + b] # "." THEN NoMatch
    ELSE MatchPatch(s, a, b, DigitRun(s, a + b + 3))

\* The first "(\d+)", from position 1, and the "." after it.
MatchMajor(s, a) ==
    IF a = 0 \/ a + 1 > Len(s) \/ s[a + 1] # "." THEN NoMatch
    ELSE MatchMinor(s, a, DigitRun(s, a + 2))

_parse_version(s) == MatchMajor(s, DigitRun(s, 1))

-----------------------------------------------------------------------------
(* PromptVersioner._format_version *)

\* The same with "if pre_number:" for "if pre_number is not None:".
FormatVersionTruthyNumber(major, minor, patch, pre_label, pre_number) ==
    LET base == IntToStr(major) \o <<".">> \o IntToStr(minor) \o <<".">> \o IntToStr(patch)
    IN  IF pre_label # "None" /\ pre_label # "STABLE"
        THEN IF pre_number # NoNumber /\ pre_number # 0
             THEN base \o <<"-">> \o LabelValue(pre_label) \o <<".">> \o IntToStr(pre_number)
             ELSE base \o <<"-">> \o LabelValue(pre_label)
        ELSE base

_format_version(major, minor, patch, pre_label, pre_number) ==
    LET base == IntToStr(major) \o <<".">> \o IntToStr(minor) \o <<".">> \o IntToStr(patch)
    IN  IF pre_label # "None" /\ pre_label # "STABLE"
        THEN IF pre_number # NoNumber
             THEN base \o <<"-">> \o LabelValue(pre_label) \o <<".">> \o IntToStr(pre_number)
             ELSE base \o <<"-">> \o LabelValue(pre_label)
        ELSE base

-----------------------------------------------------------------------------
(* PromptVersioner._calculate_next_version *)

\* "First version" and "Invalid format, start fresh": major, minor, patch = 1, 0, 0.
FirstVersionFromZero == <<0, 0, 0>>

FirstVersion == <<1, 0, 0>>

\* "Releasing stable from pre-release, keep version": the condition of the
\* first branch, on the parsed current version.
IsPromotionAnyCurrent(parsed, bump_type, pre_label) ==
    /\ pre_label = "STABLE"
    /\ bump_type = "PATCH"

IsPromotionOnNone(parsed, bump_type, pre_label) ==
    /\ pre_label = "None"
    /\ parsed.pre_label # NoneStr
    /\ bump_type = "PATCH"

\* The promotion taken for an absent pre_label as for STABLE.
IsPromotionOnUnlabelled(parsed, bump_type, pre_label) ==
    /\ pre_label \in {"STABLE", "None"}
    /\ parsed.pre_label # NoneStr
    /\ bump_type = "PATCH"

IsPromotion(parsed, bump_type, pre_label) ==
    /\ pre_label = "STABLE"
    /\ parsed.pre_label # NoneStr
    /\ bump_type = "PATCH"

\* "Otherwise bump version": the elif chain on bump_type.
BumpedKeepingPatch(parsed, bump_type) ==
    IF bump_type = "MAJOR" THEN <<parsed.major + 1, 0, 0>>
    ELSE IF bump_type = "MINOR" THEN <<parsed.major, parsed.minor + 1, parsed.patch>>
    ELSE IF bump_type = "PATCH" THEN <<parsed.major, parsed.minor, parsed.patch + 1>>
    ELSE <<parsed.major, parsed.minor, parsed.patch>>

Bumped(parsed, bump_type) ==
    IF bump_type = "MAJOR" THEN <<parsed.major + 1, 0, 0>>
    ELSE IF bump_type = "MINOR" THEN <<parsed.major, parsed.minor + 1, 0>>
    ELSE IF bump_type = "PATCH" THEN <<parsed.major, parsed.minor, parsed.patch + 1>>
    ELSE <<parsed.major, parsed.minor, parsed.patch>>

\* NextFromParsed without "if not parsed": an unparsable current version is
\* bumped as 0.0.0.
NextFromParsedBumpingUnparsed(parsed, bump_type, pre_label) ==
    IF IsPromotion(parsed, bump_type, pre_label)
    THEN <<parsed.major, parsed.minor, parsed.patch>>
    ELSE Bumped(parsed, bump_type)

\* The (major, minor, patch) the function hands to _format_version, for a
\* current version that is present: parsed is _parse_version's result.
NextFromParsed(parsed, bump_type, pre_label) ==
    IF ~parsed.matched THEN FirstVersion
    ELSE IF IsPromotion(parsed, bump_type, pre_label)
         THEN <<parsed.major, parsed.minor, parsed.patch>>
    ELSE Bumped(parsed, bump_type)

NextTriple(cur, bump_type, pre_label) ==
    IF cur = NoneStr THEN FirstVersion
    ELSE NextFromParsed(_parse_version(cur), bump_type, pre_label)

\* "return self._format_version(major, minor, patch, pre_label, pre_number)".
FormatTriple(t, pre_label, pre_number) ==
    _format_version(t[1], t[2], t[3], pre_label, pre_number)

_calculate_next_version(cur, bump_type, pre_label, pre_number) ==
    FormatTriple(NextTriple(cur, bump_type, pre_label), pre_label, pre_number)

-----------------------------------------------------------------------------
(* PromptStorage: the SQLite tables.  A row of prompt_versions is          *)
(* [id, name, version, system_prompt, user_prompt, timestamp]; the         *)
(* metadata and git_commit columns are written once and read by none of    *)
(* the operations below.  The tables travel through the operators as one   *)
(* record db = [pv, pm, seqv, clock].                                      *)

\* The rows of prompt_versions that carry the key (name, version), as seen
\* by "WHERE name = ? AND version = ?" and by UNIQUE(name, version).
RowsWithKeySwapped(pv, name, version) ==
    {r \in pv : r.name = version /\ r.version = name}

RowsWithKey(pv, name, version) ==
    {r \in pv : r.name = name /\ r.version = version}

\* PromptStorage.get_version: the matching row, as a set ({} for None).
get_version(pv, name, version) == RowsWithKey(pv, name, version)

\* get_latest_version with ORDER BY timestamp ASC.
GetOldestVersion(pv, name) ==
    {r \in pv : /\ r.name = name
                /\ \A o \in pv : o.name = name => r.timestamp <= o.timestamp}

\* PromptStorage.get_latest_version: ORDER BY timestamp DESC LIMIT 1.
get_latest_version(pv, name) ==
    {r \in pv : /\ r.name = name
                /\ \A o \in pv : o.name = name => o.timestamp <= r.timestamp}

\* PromptStorage.save_version: one INSERT in its own transaction; a row with
\* the same (name, version) makes it raise sqlite3.IntegrityError.
storage_save_version(db, name, version, system_prompt, user_prompt) ==
    IF RowsWithKey(db.pv, name, version) # {}
    THEN [db |-> db, raised |-> "IntegrityError", id |-> 0]
    ELSE [db |-> [db EXCEPT
                    !.pv = @ \cup {[id |-> db.seqv + 1,
                                    name |-> name,
                                    version |-> version,
                                    system_prompt |-> system_prompt,
                                    user_prompt |-> user_prompt,
                                    timestamp |-> db.clock + 1]},
                    !.seqv = @ + 1,
                    !.clock = @ + 1],
          raised |-> "None",
          id |-> db.seqv + 1]

\* delete_version without its "DELETE FROM prompt_metrics".
DeleteVersionKeepingMetrics(db, name, version) ==
    LET ids == {r.id : r \in RowsWithKey(db.pv, name, version)}
    IN  [db EXCEPT !.pv = {r \in @ : r.id \notin ids}]

\* PromptStorage.delete_version: the version's metrics, then the version.
storage_delete_version(db, name, version) ==
    LET ids == {r.id : r \in RowsWithKey(db.pv, name, version)}
    IN  [db EXCEPT !.pm = {m \in @ : m.version_id \notin ids},
                   !.pv = {r \in @ : r.id \notin ids}]

-----------------------------------------------------------------------------
(* prompt_versioner.tracker is not among the sources: the two fallback     *)
(* version strings are modelled as what their call sites allow, a function *)
(* of the repository's HEAD and a function of the two texts.               *)

GitVersionString(head) == <<"m", "a", "i", "n", "-">> \o IntToStr(head)

ComputeHash(system_prompt, user_prompt) ==
    <<"#">> \o system_prompt \o <<"|">> \o user_prompt

-----------------------------------------------------------------------------
(* PromptVersioner.save_version and rollback *)

\* "Auto-generate version if not provided": the version string to store.
ResolveVersion(pv, head, name, system_prompt, user_prompt, version, bump_type, pre_label, pre_number) ==
    IF version = NoneStr
    THEN IF bump_type # "None"
         THEN LET latest == get_latest_version(pv, name)
                  cur == IF latest # {} THEN (CHOOSE r \in latest : TRUE).version
                         ELSE NoneStr
              IN  _calculate_next_version(cur, bump_type, pre_label, pre_number)
         ELSE IF head # 0 THEN GitVersionString(head)
         ELSE ComputeHash(system_prompt, user_prompt)
    ELSE version

\* What save_version does about an existing row with the version's key.
\* save_version without its check, leaving the existing row to the table.
ExistingActionAlwaysInsert(existing, overwrite) == "insert"

ExistingActionIgnoringFlag(existing, overwrite) ==
    IF existing = {} THEN "insert" ELSE "replace"

ExistingAction(existing, overwrite) ==
    IF existing = {} THEN "insert"
    ELSE IF overwrite THEN "replace"
    ELSE "raise"

\* save_version from "Check if version already exists" on, v being the
\* version string to store.
SaveResolved(db, name, system_prompt, user_prompt, v, overwrite) ==
    LET existing == get_version(db.pv, name, v)
        act == ExistingAction(existing, overwrite)
        replaced == IF act = "replace" THEN (CHOOSE r \in existing : TRUE).id ELSE 0
    IN  IF act = "raise"
        THEN [db |-> db, raised |-> "ValueError", id |-> 0, version |-> v,
              replaced |-> 0]
        ELSE LET db1 == IF act = "replace" THEN storage_delete_version(db, name, v)
                        ELSE db
                 r == storage_save_version(db1, name, v, system_prompt, user_prompt)
             IN  [db |-> r.db, raised |-> r.raised, id |-> r.id, version |-> v,
                  replaced |-> replaced]

save_version(db, head, name, system_prompt, user_prompt, version, bump_type, pre_label, pre_number, overwrite) ==
    SaveResolved(db, name, system_prompt, user_prompt,
                 ResolveVersion(db.pv, head, name, system_prompt, user_prompt,
                                version, bump_type, pre_label, pre_number),
                 overwrite)

rollback(db, head, name, to_version) ==
    LET old_version == get_version(db.pv, name, to_version)
    IN  IF old_version = {}
        THEN [db |-> db, raised |-> "ValueError", id |-> 0, version |-> NoneStr,
              replaced |-> 0]
        ELSE LET old == CHOOSE r \in old_version : TRUE
             IN  save_version(db, head, name, old.system_prompt, old.user_prompt,
                              NoneStr, "None", "None", NoNumber, FALSE)

\* The skip test of import_prompt with "overwrite" for "not overwrite".
SkipsEntryWhenOverwriting(existing, overwrite) == existing # {} /\ overwrite

\* "if existing and not overwrite": the entry is skipped.
SkipsEntry(existing, overwrite) == existing # {} /\ ~overwrite

\* PromptVersioner.import_prompt: the loop over the file's versions, from
\* entry i on.  A ValueError of save_version ends the import where it stands.
RECURSIVE ImportFrom(_, _, _, _, _, _, _, _)
ImportFrom(db, head, name, entries, i, overwrite, bump_type, counts) ==
    IF i > Len(entries)
    THEN [db |-> db, raised |-> "None", imported |-> counts[1], skipped |-> counts[2]]
    ELSE
        LET v == entries[i]
            existing == get_version(db.pv, name, v.version)
        IN  IF SkipsEntry(existing, overwrite)
            THEN ImportFrom(db, head, name, entries, i + 1, overwrite, bump_type,
                            <<counts[1], counts[2] + 1>>)
            ELSE
                LET latest == get_latest_version(db.pv, name)
                    cur == IF latest # {} THEN (CHOOSE r \in latest : TRUE).version
                           ELSE NoneStr
                    version_str ==
                        IF bump_type # "None"
                        THEN _calculate_next_version(cur, bump_type, "None", NoNumber)
                        ELSE v.version
                    r == save_version(db, head, name, v.system_prompt, v.user_prompt,
                                      version_str, "None", "None", NoNumber, overwrite)
                IN  IF r.raised # "None"
                    THEN [db |-> r.db, raised |-> r.raised,
                          imported |-> counts[1], skipped |-> counts[2]]
                    ELSE ImportFrom(r.db, head, name, entries, i + 1, overwrite,
                                    bump_type, <<counts[1] + 1, counts[2]>>)

import_prompt(db, head, file, overwrite, bump_type) ==
    ImportFrom(db, head, file.prompt_name, file.versions, 1, overwrite, bump_type,
               <<0, 0>>)

-----------------------------------------------------------------------------
(* PromptVersioner.diff and compare_versions *)

\* No call of DiffEngine.compute_diff.
NoDiff == [old_system |-> NoneStr, old_user |-> NoneStr,
           new_system |-> NoneStr, new_user |-> NoneStr]

\* diff with the empty text for a version that is not stored.
DiffSubstitutingEmpty(pv, name, version1, version2) ==
    LET v1 == get_version(pv, name, version1)
        v2 == get_version(pv, name, version2)
    IN  [raised |-> "None", missing |-> NoneStr,
         compared |->
            [old_system |-> IF v1 = {} THEN <<>> ELSE (CHOOSE r \in v1 : TRUE).system_prompt,
             old_user |-> IF v1 = {} THEN <<>> ELSE (CHOOSE r \in v1 : TRUE).user_prompt,
             new_system |-> IF v2 = {} THEN <<>> ELSE (CHOOSE r \in v2 : TRUE).system_prompt,
             new_user |-> IF v2 = {} THEN <<>> ELSE (CHOOSE r \in v2 : TRUE).user_prompt]]

\* PromptVersioner.diff: the ValueError and the version it names, or the
\* four texts it hands to DiffEngine.compute_diff.
diff(pv, name, version1, version2) ==
    LET v1 == get_version(pv, name, version1)
        v2 == get_version(pv, name, version2)
    IN  IF v1 = {}
        THEN [raised |-> "ValueError", missing |-> version1, compared |-> NoDiff]
        ELSE IF v2 = {}
        THEN [raised |-> "ValueError", missing |-> version2, compared |-> NoDiff]
        ELSE [raised |-> "None", missing |-> NoneStr,
              compared |-> [old_system |-> (CHOOSE r \in v1 : TRUE).system_prompt,
                            old_user |-> (CHOOSE r \in v1 : TRUE).user_prompt,
                            new_system |-> (CHOOSE r \in v2 : TRUE).system_prompt,
                            new_user |-> (CHOOSE r \in v2 : TRUE).user_prompt]]

\* PromptStorage.get_metrics: the metric rows of a version id.
get_metrics(pm, version_id) == {m \in pm : m.version_id = version_id}

\* The entry compare_versions appends for a version that is stored.
ComparisonEntry(pv, pm, name, version) ==
    LET v == CHOOSE r \in get_version(pv, name, version) : TRUE
    IN  [version |-> version, timestamp |-> v.timestamp,
         metrics |-> get_metrics(pm, v.id)]

\* PromptVersioner.compare_versions: comparison["versions"], built by the
\* loop over versions from entry i on; a version that is not stored adds
\* nothing.
RECURSIVE CompareFrom(_, _, _, _, _)
CompareFrom(pv, pm, name, versions, i) ==
    IF i > Len(versions) THEN <<>>
    ELSE (IF get_version(pv, name, versions[i]) # {}
          THEN <<ComparisonEntry(pv, pm, name, versions[i])>>
          ELSE <<>>) \o CompareFrom(pv, pm, name, versions, i + 1)

compare_versions(pv, pm, name, versions) == CompareFrom(pv, pm, name, versions, 1)

-----------------------------------------------------------------------------
(* create_inline_diff (web/app.py): the word-level diff of two texts.  A   *)
(* text is a sequence of characters, a word a non-empty sequence of        *)
(* characters without white space.  Indices into the word lists are        *)
(* Python's: the first word has index 0 and a[i1:i2] excludes i2.          *)

IsSpace(c) == c = " " \/ c = "\n"

\* str.split(): the maximal runs of characters that are not white space.
RECURSIVE SplitFrom(_, _, _)
SplitFrom(s, i, word) ==
    IF i > Len(s) THEN (IF word = <<>> THEN <<>> ELSE <<word>>)
    ELSE IF IsSpace(s[i])
         THEN (IF word = <<>> THEN <<>> ELSE <<word>>) \o SplitFrom(s, i + 1, <<>>)
    ELSE SplitFrom(s, i + 1, Append(word, s[i]))

split(s) == SplitFrom(s, 1, <<>>)

\* ' '.join(words)
RECURSIVE join(_)
join(words) ==
    IF Len(words) = 0 THEN <<>>
    ELSE IF Len(words) = 1 THEN words[1]
    ELSE words[1] \o <<" ">> \o join(Tail(words))

\* words[i1:i2]
Slice(words, i1, i2) == SubSeq(words, i1 + 1, i2)

\* The length of the longest common run a[i:i+k] = b[j:j+k] inside
\* a[..ahi] and b[..bhi].
RECURSIVE MatchLen(_, _, _, _, _, _)
MatchLen(a, b, i, j, ahi, bhi) ==
    IF i < ahi /\ j < bhi /\ a[i + 1] = b[j + 1]
    THEN 1 + MatchLen(a, b, i + 1, j + 1, ahi, bhi)
    ELSE 0

\* The order in which SequenceMatcher.find_longest_match prefers the block
\* starting at c = (i, j) to the one starting at d: longer first, then
\* earlier in a, then earlier in b.
Preferred(a, b, c, d, ahi, bhi) ==
    \/ MatchLen(a, b, c[1], c[2], ahi, bhi) > MatchLen(a, b, d[1], d[2], ahi, bhi)
    \/ /\ MatchLen(a, b, c[1], c[2], ahi, bhi) = MatchLen(a, b, d[1], d[2], ahi, bhi)
       /\ \/ c[1] < d[1]
          \/ c[1] = d[1] /\ c[2] <= d[2]

BlockAt(a, b, c, ahi, bhi) ==
    [i |-> c[1], j |-> c[2], k |-> MatchLen(a, b, c[1], c[2], ahi, bhi)]

\* SequenceMatcher(None, a, b).find_longest_match(alo, ahi, blo, bhi), no
\* element being junk (isjunk is None, and the lists are far shorter than
\* the 200 elements from which autojunk applies): (alo, blo, 0) when
\* nothing matches.
find_longest_match(a, b, alo, ahi, blo, bhi) ==
    IF alo >= ahi \/ blo >= bhi THEN [i |-> alo, j |-> blo, k |-> 0]
    ELSE BlockAt(a, b,
                 CHOOSE c \in (alo..(ahi - 1)) \X (blo..(bhi - 1)) :
                    \A d \in (alo..(ahi - 1)) \X (blo..(bhi - 1)) :
                       Preferred(a, b, c, d, ahi, bhi),
                 ahi, bhi)

\* SequenceMatcher.get_matching_blocks: the longest match, then the same to
\* its left and to its right; the blocks in increasing order, then the
\* sentinel (len(a), len(b), 0).
RECURSIVE MatchingBlocksIn(_, _, _, _, _, _)
RECURSIVE BlocksAround(_, _, _, _, _, _, _)
BlocksAround(a, b, alo, ahi, blo, bhi, m) ==
    IF m.k = 0 THEN <<>>
    ELSE MatchingBlocksIn(a, b, alo, m.i, blo, m.j)
         \o <<m>>
         \o MatchingBlocksIn(a, b, m.i + m.k, ahi, m.j + m.k, bhi)

MatchingBlocksIn(a, b, alo, ahi, blo, bhi) ==
    BlocksAround(a, b, alo, ahi, blo, bhi,
                 find_longest_match(a, b, alo, ahi, blo, bhi))

get_matching_blocks(a, b) ==
    MatchingBlocksIn(a, b, 0, Len(a), 0, Len(b))
    \o <<[i |-> Len(a), j |-> Len(b), k |-> 0]>>

\* get_opcodes testing j < bj before the replace case.
OpcodesOfBlockInsertFirst(m, i, j) ==
    (IF j < m.j
     THEN <<[tag |-> "insert", i1 |-> i, i2 |-> m.i, j1 |-> j, j2 |-> m.j]>>
     ELSE IF i < m.i
     THEN <<[tag |-> "delete", i1 |-> i, i2 |-> m.i, j1 |-> j, j2 |-> m.j]>>
     ELSE <<>>)
    \o (IF m.k > 0
        THEN <<[tag |-> "equal", i1 |-> m.i, i2 |-> m.i + m.k,
                j1 |-> m.j, j2 |-> m.j + m.k]>>
        ELSE <<>>)

\* SequenceMatcher.get_opcodes: what lies between position (i, j) and the
\* matching block m, then the block itself.
OpcodesOfBlock(m, i, j) ==
    (IF i < m.i /\ j < m.j
     THEN <<[tag |-> "replace", i1 |-> i, i2 |-> m.i, j1 |-> j, j2 |-> m.j]>>
     ELSE IF i < m.i
     THEN <<[tag |-> "delete", i1 |-> i, i2 |-> m.i, j1 |-> j, j2 |-> m.j]>>
     ELSE IF j < m.j
     THEN <<[tag |-> "insert", i1 |-> i, i2 |-> m.i, j1 |-> j, j2 |-> m.j]>>
     ELSE <<>>)
    \o (IF m.k > 0
        THEN <<[tag |-> "equal", i1 |-> m.i, i2 |-> m.i + m.k,
                j1 |-> m.j, j2 |-> m.j + m.k]>>
        ELSE <<>>)

RECURSIVE OpcodesFrom(_, _, _, _)
OpcodesFrom(blocks, n, i, j) ==
    IF n > Len(blocks) THEN <<>>
    ELSE OpcodesOfBlock(blocks[n], i, j)
         \o OpcodesFrom(blocks, n + 1, blocks[n].i + blocks[n].k,
                        blocks[n].j + blocks[n].k)

get_opcodes(a, b) == OpcodesFrom(get_matching_blocks(a, b), 1, 0, 0)

\* create_inline_diff without its branch for 'replace'.
SegmentsWithoutReplace(o, old_words, new_words) ==
    IF o.tag = "equal"
    THEN <<[type |-> "unchanged", text |-> join(Slice(new_words, o.j1, o.j2))]>>
    ELSE IF o.tag = "delete"
    THEN <<[type |-> "removed", text |-> join(Slice(old_words, o.i1, o.i2))]>>
    ELSE IF o.tag = "insert"
    THEN <<[type |-> "added", text |-> join(Slice(new_words, o.j1, o.j2))]>>
    ELSE <<>>

\* create_inline_diff tagging an 'equal' range as added.
SegmentsEqualAsAdded(o, old_words, new_words) ==
    IF o.tag = "equal" \/ o.tag = "insert"
    THEN <<[type |-> "added", text |-> join(Slice(new_words, o.j1, o.j2))]>>
    ELSE IF o.tag = "delete"
    THEN <<[type |-> "removed", text |-> join(Slice(old_words, o.i1, o.i2))]>>
    ELSE IF o.tag = "replace"
    THEN <<[type |-> "removed", text |-> join(Slice(old_words, o.i1, o.i2))],
           [type |-> "added", text |-> join(Slice(new_words, o.j1, o.j2))]>>
    ELSE <<>>

\* create_inline_diff with one segment per word.
InlineDiffPerWord(old_words, new_words) ==
    IF old_words = <<>>
    THEN [n \in 1..Len(new_words) |-> [type |-> "added", text |-> new_words[n]]]
    ELSE <<[type |-> "removed", text |-> join(old_words)]>>
         \o [n \in 1..Len(new_words) |-> [type |-> "added", text |-> new_words[n]]]

\* The segments create_inline_diff appends for one opcode.
SegmentsOfOpcode(o, old_words, new_words) ==
    IF o.tag = "equal"
    THEN <<[type |-> "unchanged", text |-> join(Slice(new_words, o.j1, o.j2))]>>
    ELSE IF o.tag = "delete"
    THEN <<[type |-> "removed", text |-> join(Slice(old_words, o.i1, o.i2))]>>
    ELSE IF o.tag = "insert"
    THEN <<[type |-> "added", text |-> join(Slice(new_words, o.j1, o.j2))]>>
    ELSE IF o.tag = "replace"
    THEN <<[type |-> "removed", text |-> join(Slice(old_words, o.i1, o.i2))],
           [type |-> "added", text |-> join(Slice(new_words, o.j1, o.j2))]>>
    ELSE <<>>

RECURSIVE SegmentsFrom(_, _, _, _)
SegmentsFrom(opcodes, n, old_words, new_words) ==
    IF n > Len(opcodes) THEN <<>>
    ELSE SegmentsOfOpcode(opcodes[n], old_words, new_words)
         \o SegmentsFrom(opcodes, n + 1, old_words, new_words)

InlineDiffOfWords(old_words, new_words) ==
    SegmentsFrom(get_opcodes(old_words, new_words), 1, old_words, new_words)

create_inline_diff(old, new) == InlineDiffOfWords(split(old), split(new))

-----------------------------------------------------------------------------
(* The resolver as a state machine: a caller picks a current version and   *)
(* calls _calculate_next_version; as save_version does, the next call      *)
(* takes the version just produced as its current version.                 *)

MaxPreNumber == 2

NumberArgs == {NoNumber} \cup 0..MaxPreNumber

LabelArgs == PreReleaseLabel \cup {"None"}

\* MAJOR.MINOR.PATCH prefixes: single digits, a 9 that carries, a
\* two-digit component and a component with a leading zero.
TripleTexts ==
    { <<"1", ".", "0", ".", "0">>,
      <<"0", ".", "0", ".", "0">>,
      <<"1", ".", "2", ".", "9">>,
      <<"9", ".", "1", "0", ".", "0", "7">> }

\* What may follow the triple and still match the pattern.
MatchingTails ==
    { <<>>,
      <<"-", "R", "C">>,
      <<"-", "R", "C", ".", "1">>,
      <<"-", "R", "C", ".", "2">>,
      <<"-", "S", "N", "A", "P", "S", "H", "O", "T">>,
      <<"-", "M", ".", "1">>,
      <<"-", "b", "e", "t", "a", ".", "0", "9">>,
      <<"\n">>,
      <<"-", "R", "C", ".", "1", "\n">> }

\* What may follow the triple and make the pattern fail.
FailingTails ==
    { <<"-">>,
      <<"-", "R", "C", ".">>,
      <<"-", "R", "C", "1">>,
      <<".", "4">>,
      <<" ">>,
      <<"\n", "\n">>,
      <<"-", "R", "C", ".", "2", ".", "3">> }

OtherTexts ==
    { <<>>,
      <<"v", "1", ".", "0", ".", "0">>,
      <<"1", ".", "0">>,
      <<".", "0", ".", "0">>,
      <<"m", "a", "i", "n", "-", "a", "b", "c", "1", "2", "3">> }

VersionArgs ==
    {t \o x : t \in TripleTexts, x \in MatchingTails \cup FailingTails}
        \cup OtherTexts \cup {NoneStr}

NoCall == [cur |-> NoneStr, bump |-> "None", label |-> "None",
           number |-> NoNumber, out |-> NoneStr]

NoOp == [kind |-> "none", name |-> NoneStr, arg_version |-> NoneStr,
         version |-> NoneStr, overwrite |-> FALSE, raised |-> "None",
         id |-> 0, replaced |-> 0, imported |-> 0, skipped |-> 0, total |-> 0,
         arg_version2 |-> NoneStr, missing |-> NoneStr, compared |-> NoDiff,
         requested |-> <<>>, comparison |-> <<>>,
         bump_type |-> "None", pre_label |-> "None", file |-> <<>>]

\* No check_regression call in progress.
Idle == [pc |-> "idle"]

\* The monitor after construction: no handler, no call.
MonitorIdle ==
    /\ handlers = <<>>
    /\ mon = Idle
    /\ invocations = <<>>
    /\ returned = <<>>

\* No call of MetricsTracker.detect_regression.
NoTracker == [called |-> FALSE]

\* No call of PromptTestRunner.run_test.
NoRun == [called |-> FALSE]

\* An ABTest after construction, before any call.
NewABTest == [results_a |-> <<>>, results_b |-> <<>>, call |-> "none",
              raised |-> "None", result |-> [called |-> FALSE]]

\* The empty dict: a dict is the set of its (key, value) pairs.
EmptyDict == {}

\* No TestContext.
NoContext == [state |-> "none", name |-> NoneStr, version |-> NoneStr,
              metrics |-> EmptyDict, nlogs |-> 0, last |-> NoNumber,
              body_raised |-> FALSE, raised |-> "None"]

\* The testing tools before any call.
ToolsIdle ==
    /\ tracker = NoTracker
    /\ runner = NoRun
    /\ abtest = NewABTest
    /\ context = NoContext

\* No call of DiffEngine.compute_diff.
NoEngine == [called |-> FALSE]

\* No call of create_inline_diff.
NoInline == [called |-> FALSE, segments |-> <<>>]

\* The inline diff at rest: no texts, no call.
DiffIdle ==
    /\ old_text = <<>>
    /\ new_text = <<>>
    /\ inline = NoInline
    /\ engine = NoEngine

\* The state after PromptVersioner.__init__ on a fresh database.
InitStore ==
    /\ prompt_versions = {}
    /\ prompt_metrics = {}
    /\ annotations = {}
    /\ seq = [versions |-> 0, metrics |-> 0, annotations |-> 0]
    /\ clock = 0
    /\ op = NoOp
    /\ ncalls = 0

InitResolve ==
    /\ current_version \in VersionArgs
    /\ last = NoCall
    /\ prev = NoCall
    /\ InitStore
    /\ git = 0
    /\ DiffIdle
    /\ MonitorIdle
    /\ ToolsIdle

CalculateNextVersion(bump_type, pre_label, pre_number) ==
    /\ prev = NoCall
    /\ last' = [cur |-> current_version, bump |-> bump_type, label |-> pre_label,
                number |-> pre_number,
                out |-> _calculate_next_version(current_version, bump_type,
                                                pre_label, pre_number)]
    /\ prev' = last
    /\ current_version' = last'.out
    /\ UNCHANGED <<storeVars, diffVars, monitorVars, toolVars>>

NextResolve ==
    \E b \in VersionBump, l \in LabelArgs, n \in NumberArgs :
        CalculateNextVersion(b, l, n)

SpecResolve == InitResolve /\ [][NextResolve]_vars

-----------------------------------------------------------------------------
(* The version store as a state machine: one action per call on the        *)
(* PromptVersioner (or, for delete, on its storage, as the CLI does).      *)

MaxCalls == 3

MaxFileLen == 2

MaxCompare == 2

Names == {<<"p">>, <<"q">>}

Prompts ==
    { [system_prompt |-> <<"A">>, user_prompt |-> <<"U">>],
      [system_prompt |-> <<"B">>, user_prompt |-> <<"V">>] }

\* The version, bump_type and pre_label arguments of save_version: nothing
\* given, an explicit version, a bump, a bump with a pre-release label.
SaveArgs ==
    { [version |-> NoneStr, bump_type |-> "None", pre_label |-> "None"],
      [version |-> <<"1", ".", "0", ".", "0">>, bump_type |-> "None",
       pre_label |-> "None"],
      [version |-> NoneStr, bump_type |-> "PATCH", pre_label |-> "None"],
      [version |-> NoneStr, bump_type |-> "PATCH", pre_label |-> "RC"] }

\* The versions a caller may name: the stored ones and one that is not stored.
KnownVersions == {r.version : r \in prompt_versions} \cup {<<"v", "0">>}

\* The versions argument of compare_versions: up to MaxCompare versions.
CompareArgs == UNION {[1..k -> KnownVersions] : k \in 0..MaxCompare}

ImportEntries ==
    { [version |-> <<"1", ".", "0", ".", "0">>,
       system_prompt |-> <<"A">>, user_prompt |-> <<"U">>],
      [version |-> <<"v", "1">>,
       system_prompt |-> <<"B">>, user_prompt |-> <<"V">>] }

ImportFiles ==
    { [prompt_name |-> n, versions |-> vs] :
        n \in Names,
        vs \in UNION {[1..k -> ImportEntries] : k \in 1..MaxFileLen} }

Db == [pv |-> prompt_versions, pm |-> prompt_metrics,
       seqv |-> seq.versions, clock |-> clock]

\* Write a db record back to the tables.
Commit(db) ==
    /\ prompt_versions' = db.pv
    /\ prompt_metrics' = db.pm
    /\ seq' = [seq EXCEPT !.versions = db.seqv]
    /\ clock' = db.clock

\* Every call counts against the budget MaxCalls.
Tick ==
    /\ ncalls < MaxCalls
    /\ ncalls' = ncalls + 1

Init ==
    /\ InitStore
    /\ git \in {0, 1}
    /\ current_version = NoneStr
    /\ last = NoCall
    /\ prev = NoCall
    /\ DiffIdle
    /\ MonitorIdle
    /\ ToolsIdle

SaveVersion(name, prompt, version, bump_type, pre_label, pre_number, overwrite) ==
    /\ Tick
    /\ LET r == save_version(Db, git, name, prompt.system_prompt, prompt.user_prompt,
                             version, bump_type, pre_label, pre_number, overwrite)
       IN  /\ Commit(r.db)
           /\ op' = [NoOp EXCEPT !.kind = "save_version", !.name = name,
                                 !.arg_version = version, !.version = r.version,
                                 !.overwrite = overwrite, !.raised = r.raised,
                                 !.id = r.id, !.replaced = r.replaced,
                                 !.bump_type = bump_type, !.pre_label = pre_label]
    /\ UNCHANGED <<annotations, git, resolverVars, diffVars, monitorVars, toolVars>>

Rollback(name, to_version) ==
    /\ Tick
    /\ LET r == rollback(Db, git, name, to_version)
       IN  /\ Commit(r.db)
           /\ op' = [NoOp EXCEPT !.kind = "rollback", !.name = name,
                                 !.arg_version = to_version, !.version = r.version,
                                 !.raised = r.raised, !.id = r.id]
    /\ UNCHANGED <<annotations, git, resolverVars, diffVars, monitorVars, toolVars>>

ImportPrompt(file, overwrite, bump_type) ==
    /\ Tick
    /\ LET r == import_prompt(Db, git, file, overwrite, bump_type)
       IN  /\ Commit(r.db)
           /\ op' = [NoOp EXCEPT !.kind = "import_prompt", !.name = file.prompt_name,
                                 !.overwrite = overwrite, !.raised = r.raised,
                                 !.imported = r.imported, !.skipped = r.skipped,
                                 !.total = Len(file.versions),
                                 !.bump_type = bump_type, !.file = file.versions]
    /\ UNCHANGED <<annotations, git, resolverVars, diffVars, monitorVars, toolVars>>

\* storage.delete_version(name, version), as the CLI's delete command calls it.
DeleteVersion(name, version) ==
    /\ Tick
    /\ Commit(storage_delete_version(Db, name, version))
    /\ op' = [NoOp EXCEPT !.kind = "delete_version", !.name = name,
                          !.arg_version = version,
                          !.raised = IF RowsWithKey(prompt_versions, name, version) = {}
                                     THEN "False" ELSE "None"]
    /\ UNCHANGED <<annotations, git, resolverVars, diffVars, monitorVars, toolVars>>

\* PromptVersioner.log_metrics: one row of prompt_metrics for the version.
LogMetrics(name, version, quality_score) ==
    /\ Tick
    /\ LET v == get_version(prompt_versions, name, version)
       IN  IF v = {}
           THEN /\ op' = [NoOp EXCEPT !.kind = "log_metrics", !.name = name,
                                      !.arg_version = version, !.raised = "ValueError"]
                /\ UNCHANGED <<prompt_metrics, seq>>
           ELSE /\ prompt_metrics' = prompt_metrics \cup
                       {[id |-> seq.metrics + 1,
                         version_id |-> (CHOOSE r \in v : TRUE).id,
                         quality_score |-> quality_score]}
                /\ seq' = [seq EXCEPT !.metrics = @ + 1]
                /\ op' = [NoOp EXCEPT !.kind = "log_metrics", !.name = name,
                                      !.arg_version = version, !.id = seq.metrics + 1]
    /\ UNCHANGED <<prompt_versions, annotations, clock, git, resolverVars, diffVars, monitorVars, toolVars>>

\* PromptVersioner.add_annotation: one row of annotations for the version.
AddAnnotation(name, version, text) ==
    /\ Tick
    /\ LET v == get_version(prompt_versions, name, version)
       IN  IF v = {}
           THEN /\ op' = [NoOp EXCEPT !.kind = "add_annotation", !.name = name,
                                      !.arg_version = version, !.raised = "ValueError"]
                /\ UNCHANGED <<annotations, seq>>
           ELSE /\ annotations' = annotations \cup
                       {[id |-> seq.annotations + 1,
                         version_id |-> (CHOOSE r \in v : TRUE).id,
                         text |-> text]}
                /\ seq' = [seq EXCEPT !.annotations = @ + 1]
                /\ op' = [NoOp EXCEPT !.kind = "add_annotation", !.name = name,
                                      !.arg_version = version, !.id = seq.annotations + 1]
    /\ UNCHANGED <<prompt_versions, prompt_metrics, clock, git, resolverVars, diffVars, monitorVars, toolVars>>

\* PromptVersioner.diff(name, version1, version2): reads only.
Diff(name, version1, version2) ==
    /\ Tick
    /\ LET r == diff(prompt_versions, name, version1, version2)
       IN  op' = [NoOp EXCEPT !.kind = "diff", !.name = name,
                              !.arg_version = version1, !.arg_version2 = version2,
                              !.raised = r.raised, !.missing = r.missing,
                              !.compared = r.compared]
    /\ UNCHANGED <<prompt_versions, prompt_metrics, annotations, seq, clock, git,
                   resolverVars, diffVars, monitorVars, toolVars>>

\* PromptVersioner.compare_versions(name, versions): reads only, and has no
\* raise statement.
CompareVersions(name, versions) ==
    /\ Tick
    /\ op' = [NoOp EXCEPT !.kind = "compare_versions", !.name = name,
                          !.requested = versions,
                          !.comparison = compare_versions(prompt_versions,
                                                          prompt_metrics,
                                                          name, versions)]
    /\ UNCHANGED <<prompt_versions, prompt_metrics, annotations, seq, clock, git,
                   resolverVars, diffVars, monitorVars, toolVars>>

\* The environment commits to the repository the git tracker reads.
GitCommit ==
    /\ Tick
    /\ git # 0
    /\ git' = git + 1
    /\ op' = [NoOp EXCEPT !.kind = "git_commit"]
    /\ UNCHANGED <<prompt_versions, prompt_metrics, annotations, seq, clock,
                   resolverVars, diffVars, monitorVars, toolVars>>

Next ==
    \/ \E n \in Names, p \in Prompts, a \in SaveArgs, o \in BOOLEAN :
          SaveVersion(n, p, a.version, a.bump_type, a.pre_label, NoNumber, o)
    \/ \E n \in Names, v \in KnownVersions : Rollback(n, v)
    \/ \E f \in ImportFiles, o \in BOOLEAN, b \in {"None", "PATCH"} :
          ImportPrompt(f, o, b)
    \/ \E n \in Names, v \in KnownVersions : DeleteVersion(n, v)
    \/ \E n \in Names, v \in KnownVersions : LogMetrics(n, v, 1)
    \/ \E n \in Names, v \in KnownVersions : AddAnnotation(n, v, <<"ok">>)
    \/ \E n \in Names, v1 \in KnownVersions, v2 \in KnownVersions : Diff(n, v1, v2)
    \/ \E n \in Names, vs \in CompareArgs : CompareVersions(n, vs)
    \/ GitCommit

Spec == Init /\ [][Next]_vars

-----------------------------------------------------------------------------
(* DiffEngine.compute_diff.  prompt_versioner.diff is not among the        *)
(* sources: the engine is modelled as specified, on word tokens, with the  *)
(* similarity of a field the share of tokens in matching positions of the  *)
(* alignment, 1.0 for two texts without tokens, and the total the mean of  *)
(* the two fields.  A similarity is the exact fraction num / den.          *)

\* The number of tokens in the matching blocks.
RECURSIVE MatchedTokens(_)
MatchedTokens(blocks) ==
    IF blocks = <<>> THEN 0 ELSE Head(blocks).k + MatchedTokens(Tail(blocks))

Similarity(old, new) ==
    IF split(old) = <<>> /\ split(new) = <<>> THEN [num |-> 1, den |-> 1]
    ELSE [num |-> 2 * MatchedTokens(get_matching_blocks(split(old), split(new))),
          den |-> Len(split(old)) + Len(split(new))]

\* The mean of two fractions.
Mean(p, q) == [num |-> p.num * q.den + q.num * p.den, den |-> 2 * p.den * q.den]

ComputeDiff(old_system, old_user, new_system, new_user) ==
    [system_similarity |-> Similarity(old_system, new_system),
     user_similarity |-> Similarity(old_user, new_user),
     total_similarity |-> Mean(Similarity(old_system, new_system),
                               Similarity(old_user, new_user))]

\* "diff.total_similarity < 1.0" with 1.0 in place of "<": at most 1.0.
HasChangesAtMostOne(d) == d.total_similarity.num <= d.total_similarity.den

\* get_versions_with_diffs: v['has_changes'] = diff.total_similarity < 1.0
HasChanges(d) == d.total_similarity.num < d.total_similarity.den

-----------------------------------------------------------------------------
(* The inline diff as a state machine: two texts are drawn, and            *)
(* create_inline_diff is called on them, once.                             *)

MaxTextLen == 5

TextChars == {"a", "b", " "}

Texts == UNION {[1..k -> TextChars] : k \in 0..MaxTextLen}

InitInline ==
    /\ old_text \in Texts
    /\ new_text \in Texts
    /\ inline = NoInline
    /\ engine = NoEngine
    /\ MonitorIdle
    /\ ToolsIdle
    /\ InitStore
    /\ git = 0
    /\ current_version = NoneStr
    /\ last = NoCall
    /\ prev = NoCall

CreateInlineDiff ==
    /\ ~inline.called
    /\ inline' = [called |-> TRUE,
                  segments |-> create_inline_diff(old_text, new_text)]
    /\ UNCHANGED <<old_text, new_text, engine, storeVars, resolverVars, monitorVars, toolVars>>

NextInline == CreateInlineDiff

SpecInline == InitInline /\ [][NextInline]_vars

-----------------------------------------------------------------------------
(* The diff of two versions' texts, as get_versions_with_diffs and         *)
(* PromptVersioner.diff ask for it: two texts are drawn, X and Y, the old  *)
(* version holds (X, Y), and the new version's fields are each X or Y.     *)

MaxEngineTextLen == 3

EngineTexts == UNION {[1..k -> TextChars] : k \in 0..MaxEngineTextLen}

InitEngine ==
    /\ old_text \in EngineTexts
    /\ new_text \in EngineTexts
    /\ inline = NoInline
    /\ engine = NoEngine
    /\ MonitorIdle
    /\ ToolsIdle
    /\ InitStore
    /\ git = 0
    /\ current_version = NoneStr
    /\ last = NoCall
    /\ prev = NoCall

ComputeDiffCall(old_system, old_user, new_system, new_user) ==
    /\ ~engine.called
    /\ engine' = [called |-> TRUE,
                  old_system |-> old_system, old_user |-> old_user,
                  new_system |-> new_system, new_user |-> new_user,
                  diff |-> ComputeDiff(old_system, old_user, new_system, new_user),
                  has_changes |-> HasChanges(ComputeDiff(old_system, old_user,
                                                         new_system, new_user))]
    /\ UNCHANGED <<old_text, new_text, inline, storeVars, resolverVars, monitorVars, toolVars>>

NextEngine ==
    \E new_system \in {old_text, new_text}, new_user \in {old_text, new_text} :
        ComputeDiffCall(old_text, new_text, new_system, new_user)

SpecEngine == InitEngine /\ [][NextEngine]_vars

-----------------------------------------------------------------------------
(* The regression monitor's alert handlers.  prompt_versioner.monitoring   *)
(* is not among the sources: the registry and its notification are         *)
(* modelled as specified.  The registry is empty at construction and       *)
(* grows by add_alert_handler only; check_regression emits its alerts and, *)
(* before it returns, calls every registered handler once per alert, in    *)
(* registration order; a handler that raises stops nothing.  A call of     *)
(* check_regression is followed step by step: the call, one step per       *)
(* handler invocation, the return.  The monitor is used by one caller at   *)
(* a time.                                                                 *)

MaxHandlers == 2

MaxChecks == 2

\* The alerts a check can emit, in the order it emits them.
AlertTypes == <<"cost_increase", "latency_increase", "quality_decrease",
                "error_rate_increase">>

\* The metrics check_regression compares, in the order it compares them.
MetricNames == <<"cost", "latency", "quality", "error_rate">>

\* A metric that a summary does not have.
Absent == -1

\* A success rate of 1.0: rates are counted in parts of RateUnit.
RateUnit == 4

\* The value of a metric in a summary; the error rate is 1 - success rate.
MetricValue(summary, metric) ==
    CASE metric = "cost" -> summary.avg_cost
      [] metric = "latency" -> summary.avg_latency
      [] metric = "quality" -> summary.avg_quality
      [] metric = "error_rate" ->
            IF summary.success_rate = Absent THEN Absent
            ELSE RateUnit - summary.success_rate

\* delta = (current - baseline) / baseline as a fraction, with a baseline
\* of 0 counted as any other.
RelativeChangeDividing(baseline, current) ==
    [num |-> current - baseline, den |-> baseline]

\* delta = (current - baseline) / baseline as a fraction num / den with
\* den > 0; 0 when the baseline is 0.
RelativeChange(baseline, current) ==
    IF baseline = 0 THEN [num |-> 0, den |-> 1]
    ELSE [num |-> current - baseline, den |-> baseline]

\* Whether a change of delta is flagged under a threshold in percent,
\* with every metric taken as one whose increase is bad.
FlaggedOnIncrease(metric, delta, threshold) ==
    delta.num * 100 > threshold * delta.den

\* Whether a change of delta is flagged under a threshold in percent:
\* quality when delta < threshold, the other metrics when delta > threshold.
Flagged(metric, delta, threshold) ==
    IF metric = "quality" THEN delta.num * 100 < threshold * delta.den
    ELSE delta.num * 100 > threshold * delta.den

\* The alert for metric n with these values.
AlertOf(n, baseline_value, current_value, threshold) ==
    [kind |-> AlertTypes[n], metric_name |-> MetricNames[n],
     baseline_value |-> baseline_value, current_value |-> current_value,
     change |-> RelativeChange(baseline_value, current_value),
     threshold |-> threshold]

\* The alerts for metric n: one if both summaries have the metric and its
\* change is flagged, none otherwise.
AlertsOfMetric(n, baseline_value, current_value, threshold) ==
    IF baseline_value = Absent \/ current_value = Absent THEN <<>>
    ELSE IF Flagged(MetricNames[n],
                    RelativeChange(baseline_value, current_value), threshold)
         THEN <<AlertOf(n, baseline_value, current_value, threshold)>>
         ELSE <<>>

RECURSIVE AlertsFrom(_, _, _, _)
\* The alerts for the metrics from the n-th on.
AlertsFrom(n, baseline, current, thresholds) ==
    IF n > Len(MetricNames) THEN <<>>
    ELSE AlertsOfMetric(n, MetricValue(baseline, MetricNames[n]),
                        MetricValue(current, MetricNames[n]),
                        thresholds[MetricNames[n]])
         \o AlertsFrom(n + 1, baseline, current, thresholds)

\* The alerts check_regression emits for two summaries.
Alerts(baseline, current, thresholds) == AlertsFrom(1, baseline, current, thresholds)

\* The thresholds get_alerts passes, in percent.
GetAlertsThresholds ==
    [cost |-> 20, latency |-> 30, quality |-> -10, error_rate |-> 5]

\* The summaries of the versions a monitor with handlers is run on.
MonitoredSummaries ==
    [avg_cost : {4, 5}, avg_latency : {4}, avg_quality : {4, 5},
     success_rate : {RateUnit}]

\* The values of a cost, a latency or a quality in a summary.
MetricValues == {Absent, 0, 4, 5, 6}

\* The values of a success rate in a summary.
RateValues == {Absent, 2, 3, RateUnit}

\* The summaries get_alerts is run on.
Summaries ==
    [avg_cost : MetricValues, avg_latency : MetricValues,
     avg_quality : MetricValues, success_rate : RateValues]

\* The position after a handler was called for alert a as handler h of nh,
\* and stopped at the first raising handler of an alert.
AfterCallbackAbortOnRaise(a, h, nh, raised) ==
    IF h < nh /\ ~raised THEN [a |-> a, h |-> h + 1] ELSE [a |-> a + 1, h |-> 1]

\* The position after a handler was called for alert a as handler h of nh:
\* the next handler, or the first handler for the next alert.
AfterCallback(a, h, nh, raised) ==
    IF h < nh THEN [a |-> a, h |-> h + 1] ELSE [a |-> a + 1, h |-> 1]

\* What check_regression hands to its caller after a call that emitted the
\* alerts, when a raising handler ends the call.
CheckResultPropagating(alerts, failed) ==
    [raised |-> failed, alerts |-> IF failed THEN <<>> ELSE alerts]

\* What check_regression hands to its caller after a call that emitted the
\* alerts; failed says whether a handler raised during the call.  The call
\* returns the alerts whatever the handlers did.
CheckResult(alerts, failed) ==
    [raised |-> FALSE, alerts |-> alerts]

\* The record of a check_regression call that has ended.
Ended(check, baseline, current, thresholds, emitted, failed, nhandlers) ==
    [check |-> check, baseline |-> baseline, current |-> current,
     thresholds |-> thresholds, emitted |-> emitted,
     alerts |-> CheckResult(emitted, failed).alerts,
     raised |-> CheckResult(emitted, failed).raised,
     nhandlers |-> nhandlers]

InitMonitor ==
    /\ MonitorIdle
    /\ ToolsIdle
    /\ DiffIdle
    /\ InitStore
    /\ git = 0
    /\ current_version = NoneStr
    /\ last = NoCall
    /\ prev = NoCall

\* add_alert_handler(callback): the callback is appended; raises says
\* whether the callback raises when it is called.
AddAlertHandler(raises) ==
    /\ mon.pc = "idle"
    /\ Len(handlers) < MaxHandlers
    /\ handlers' = Append(handlers, [id |-> Len(handlers) + 1, raises |-> raises])
    /\ UNCHANGED <<mon, invocations, returned, storeVars, resolverVars, diffVars, toolVars>>

\* check_regression is called on the summaries of two versions and emits
\* its alerts.
CheckRegressionCall(baseline, current, thresholds) ==
    /\ mon.pc = "idle"
    /\ Len(returned) < MaxChecks
    /\ mon' = [pc |-> "notifying", check |-> Len(returned) + 1,
               baseline |-> baseline, current |-> current,
               thresholds |-> thresholds,
               alerts |-> Alerts(baseline, current, thresholds),
               a |-> 1, h |-> 1, failed |-> FALSE]
    /\ UNCHANGED <<handlers, invocations, returned, storeVars, resolverVars, diffVars, toolVars>>

\* The next handler is called with the next alert.
InvokeHandler ==
    /\ mon.pc = "notifying"
    /\ mon.a <= Len(mon.alerts)
    /\ handlers # <<>>
    /\ invocations' = Append(invocations,
                             [check |-> mon.check, alert |-> mon.alerts[mon.a],
                              handler |-> handlers[mon.h].id,
                              raised |-> handlers[mon.h].raises])
    /\ mon' = [mon EXCEPT
                 !.a = AfterCallback(mon.a, mon.h, Len(handlers),
                                     handlers[mon.h].raises).a,
                 !.h = AfterCallback(mon.a, mon.h, Len(handlers),
                                     handlers[mon.h].raises).h,
                 !.failed = mon.failed \/ handlers[mon.h].raises]
    /\ UNCHANGED <<handlers, returned, storeVars, resolverVars, diffVars, toolVars>>

\* check_regression ends, every handler having been called: it returns the
\* alerts to its caller.
CheckRegressionReturn ==
    /\ mon.pc = "notifying"
    /\ mon.a > Len(mon.alerts) \/ handlers = <<>>
    /\ returned' = Append(returned,
                          Ended(mon.check, mon.baseline, mon.current,
                                mon.thresholds, mon.alerts, mon.failed,
                                Len(handlers)))
    /\ mon' = Idle
    /\ UNCHANGED <<handlers, invocations, storeVars, resolverVars, diffVars, toolVars>>

NextMonitor ==
    \/ \E raises \in BOOLEAN : AddAlertHandler(raises)
    \/ \E baseline, current \in MonitoredSummaries :
          CheckRegressionCall(baseline, current, GetAlertsThresholds)
    \/ InvokeHandler
    \/ CheckRegressionReturn

SpecMonitor == InitMonitor /\ [][NextMonitor]_vars

-----------------------------------------------------------------------------
(* MetricsTracker.  Metrics are dicts from a metric name to the list of    *)
(* its values; a mean is the fraction num / den of the sum and the count.  *)

RECURSIVE Sum(_)
\* sum(values)
Sum(values) == IF values = <<>> THEN 0 ELSE Head(values) + Sum(Tail(values))

\* compute_stats(values): the count and the mean, 0.0 for no values.
compute_stats(values) ==
    IF values = <<>> THEN [count |-> 0, mean |-> [num |-> 0, den |-> 1]]
    ELSE [count |-> Len(values), mean |-> [num |-> Sum(values), den |-> Len(values)]]

\* new mean - baseline mean
MeanDiff(baseline_mean, new_mean) ==
    [num |-> new_mean.num * baseline_mean.den - baseline_mean.num * new_mean.den,
     den |-> new_mean.den * baseline_mean.den]

\* mean_diff / baseline mean * 100, whatever the baseline mean: a
\* denominator of 0 stands for the division by zero.
MeanPctChangeUnguarded(mean_diff, baseline_mean) ==
    [num |-> mean_diff.num * 100 * baseline_mean.den,
     den |-> mean_diff.den * baseline_mean.num]

\* mean_diff / baseline mean * 100 if the baseline mean is not 0, else 0.0.
MeanPctChange(mean_diff, baseline_mean) ==
    IF baseline_mean.num # 0
    THEN [num |-> mean_diff.num * 100 * baseline_mean.den,
          den |-> mean_diff.den * baseline_mean.num]
    ELSE [num |-> 0, den |-> 1]

\* The comparison of one metric from the statistics of its two lists.
ComparisonOf(baseline_stats, new_stats) ==
    [baseline |-> baseline_stats, new |-> new_stats,
     mean_diff |-> MeanDiff(baseline_stats.mean, new_stats.mean),
     mean_pct_change |-> MeanPctChange(MeanDiff(baseline_stats.mean, new_stats.mean),
                                       baseline_stats.mean),
     improved |-> MeanDiff(baseline_stats.mean, new_stats.mean).num > 0]

\* compare_metrics(baseline_metrics, new_metrics): the comparison of every
\* metric the two dicts have in common.
compare_metrics(baseline_metrics, new_metrics) ==
    [metric_name \in DOMAIN baseline_metrics \cap DOMAIN new_metrics |->
        ComparisonOf(compute_stats(baseline_metrics[metric_name]),
                     compute_stats(new_metrics[metric_name]))]

\* The metrics of a comparison whose change in percent is below
\* -threshold * 100; the threshold is given in percent.
RegressionsIn(comparison, threshold) ==
    {metric_name \in DOMAIN comparison :
        comparison[metric_name].mean_pct_change.num
            < (0 - threshold) * comparison[metric_name].mean_pct_change.den}

\* detect_regression(baseline_metrics, new_metrics, threshold): the metrics
\* that regressed, in the order of a set; raised if a division by zero
\* ended the call.
detect_regression(baseline_metrics, new_metrics, threshold) ==
    [raised |-> \E metric_name \in DOMAIN compare_metrics(baseline_metrics, new_metrics) :
                   compare_metrics(baseline_metrics, new_metrics)[metric_name]
                       .mean_pct_change.den = 0,
     comparison |-> compare_metrics(baseline_metrics, new_metrics),
     regressions |-> RegressionsIn(compare_metrics(baseline_metrics, new_metrics),
                                   threshold)]

MaxValues == 2

\* The lists of at most MaxValues values of a metric.
ValueLists == UNION {[1..k -> {0, 1, 2}] : k \in 0..MaxValues}

\* The metrics dicts: quality_score with any list or without it, accuracy
\* with a short list or without it.
MetricDicts ==
    {[metric_name \in names |->
        IF metric_name = "quality_score" THEN quality ELSE accuracy] :
        names \in SUBSET {"quality_score", "accuracy"},
        quality \in ValueLists, accuracy \in {<<>>, <<0>>, <<2>>}}

\* The thresholds of detect_regression, in percent: relative thresholds
\* are not negative.
TrackerThresholds == {0, 5, 50}

\* The summaries with a baseline of 0.
ZeroBaselines ==
    [avg_cost : {0}, avg_latency : {0, 2}, avg_quality : {0}, success_rate : {RateUnit}]

\* A call of MetricsTracker.detect_regression on two of the metrics dicts.
DetectRegression ==
    /\ ~tracker.called
    /\ \E baseline_metrics, new_metrics \in MetricDicts :
          \E threshold \in TrackerThresholds :
             tracker' = [called |-> TRUE, baseline_metrics |-> baseline_metrics,
                         new_metrics |-> new_metrics, threshold |-> threshold,
                         result |-> detect_regression(baseline_metrics,
                                                      new_metrics, threshold)]
    /\ UNCHANGED <<runner, abtest, context, storeVars, resolverVars, diffVars,
                   monitorVars>>

\* get_alerts: a monitor is constructed and check_regression is called on
\* it, with no handler registered, for the latest version against the one
\* before it; their summaries are among baselines and currents.
GetAlerts(baselines, currents) ==
    /\ mon.pc = "idle"
    /\ handlers = <<>>
    /\ returned = <<>>
    /\ \E baseline \in baselines : \E current \in currents :
          returned' = <<Ended(1, baseline, current, GetAlertsThresholds,
                              Alerts(baseline, current, GetAlertsThresholds),
                              FALSE, 0)>>
    /\ UNCHANGED <<handlers, mon, invocations, storeVars, resolverVars, diffVars, toolVars>>

NextAlerts == GetAlerts(Summaries, Summaries)

SpecAlerts == InitMonitor /\ [][NextAlerts]_vars

NextTracker ==
    \/ DetectRegression
    \/ GetAlerts(ZeroBaselines, MonitoredSummaries)

SpecTracker == InitMonitor /\ [][NextTracker]_vars

-----------------------------------------------------------------------------
(* PromptTestRunner.run_test.  The three functions a caller hands in are   *)
(* given by what they do: prompt_fn raises or returns an output,           *)
(* validation_fn is absent, raises or returns a verdict, metric_fn is      *)
(* absent, raises or returns a dict.                                       *)

\* The methods of MetricAggregator.
MetricAggregatorMethods ==
    {"__init__", "add", "add_dict", "get_summary", "_avg", "clear", "to_list"}

\* What a call of a method of the aggregator raises.
CallAggregator(method) ==
    IF method \in MetricAggregatorMethods THEN "None" ELSE "AttributeError"

\* run_test's "except Exception as e": the result of a test that raised.
Failed(error) == [success |-> FALSE, output |-> "None", error |-> error]

\* "success = True", then validation_fn's verdict, or the comparison with
\* expected_output, for a validation_fn that does not raise.
Validated(test_case, output) ==
    IF test_case.validation_fn # "None" THEN test_case.validation_fn = "True"
    ELSE IF test_case.expected_output # "None"
         THEN output = test_case.expected_output
    ELSE TRUE

\* run_test from "self.aggregator.add_batch(metrics)" on; method is the
\* method of the aggregator that the line calls.
AggregateAndReturn(success, output, method) ==
    IF CallAggregator(method) # "None" THEN Failed(CallAggregator(method))
    ELSE [success |-> success, output |-> output, error |-> "None"]

\* run_test(test_case, prompt_fn, metric_fn)
run_test(test_case, prompt_fn, metric_fn) ==
    IF prompt_fn = "raises" THEN Failed("prompt_fn")
    ELSE IF test_case.validation_fn = "raises" THEN Failed("validation_fn")
    ELSE IF metric_fn = "raises" THEN Failed("metric_fn")
    ELSE AggregateAndReturn(Validated(test_case, prompt_fn), prompt_fn, "add_batch")

\* The test cases: validation_fn absent, raising or returning a verdict,
\* expected_output absent or an output.
TestCases ==
    [validation_fn : {"None", "raises", "True", "False"},
     expected_output : {"None", "x", "y"}]

\* prompt_fn: it raises or returns one of two outputs.
PromptFns == {"raises", "x", "y"}

\* metric_fn: absent, raising or returning a dict.
MetricFns == {"None", "raises", "dict"}

\* A call of run_test on a new runner.
RunTest ==
    /\ ~runner.called
    /\ \E test_case \in TestCases, prompt_fn \in PromptFns, metric_fn \in MetricFns :
          runner' = [called |-> TRUE, test_case |-> test_case,
                     prompt_fn |-> prompt_fn, metric_fn |-> metric_fn,
                     result |-> run_test(test_case, prompt_fn, metric_fn)]
    /\ UNCHANGED <<tracker, abtest, context, storeVars, resolverVars, diffVars,
                   monitorVars>>

NextRunner == RunTest

SpecRunner == InitMonitor /\ [][NextRunner]_vars

-----------------------------------------------------------------------------
(* ABTest: results are logged for version "a" and version "b", and         *)
(* get_result compares their means.  A mean, the improvement and the       *)
(* confidence are fractions num / den.                                     *)

MaxResults == 2

\* The number of results per version at which the confidence reaches 1.0.
ConfidenceSamples == 30

\* statistics.mean(values), for values that are not empty.
MeanOf(values) == [num |-> Sum(values), den |-> Len(values)]

\* mean_b > mean_a
Greater(mean_b, mean_a) == mean_b.num * mean_a.den > mean_a.num * mean_b.den

\* abs(mean_b - mean_a)
AbsDiff(mean_b, mean_a) ==
    IF Greater(mean_b, mean_a)
    THEN [num |-> mean_b.num * mean_a.den - mean_a.num * mean_b.den,
          den |-> mean_a.den * mean_b.den]
    ELSE [num |-> mean_a.num * mean_b.den - mean_b.num * mean_a.den,
          den |-> mean_a.den * mean_b.den]

\* min(min(len(results_a), len(results_b)) / 30.0, 1.0)
Confidence(count_a, count_b) ==
    IF (IF count_a < count_b THEN count_a ELSE count_b) >= ConfidenceSamples
    THEN [num |-> 1, den |-> 1]
    ELSE [num |-> IF count_a < count_b THEN count_a ELSE count_b,
          den |-> ConfidenceSamples]

\* get_result once both lists are known not to be empty: the division by
\* mean_a raises ZeroDivisionError when mean_a is 0.
ResultOfMeans(mean_a, mean_b, count_a, count_b) ==
    IF mean_a.num = 0
    THEN [raised |-> "ZeroDivisionError", result |-> [called |-> FALSE]]
    ELSE [raised |-> "None",
          result |-> [called |-> TRUE, a_mean |-> mean_a, b_mean |-> mean_b,
                      winner |-> IF Greater(mean_b, mean_a) THEN "version_b"
                                 ELSE "version_a",
                      improvement |-> [num |-> AbsDiff(mean_b, mean_a).num * 100 * mean_a.den,
                                       den |-> AbsDiff(mean_b, mean_a).den * mean_a.num],
                      confidence |-> Confidence(count_a, count_b)]]

\* ABTest.get_result()
get_result(results_a, results_b) ==
    IF results_a = <<>> \/ results_b = <<>>
    THEN [raised |-> "ValueError", result |-> [called |-> FALSE]]
    ELSE ResultOfMeans(MeanOf(results_a), MeanOf(results_b),
                       Len(results_a), Len(results_b))

\* ABTest.log_result(version, metric_value)
ABLogResult(version, metric_value) ==
    /\ IF version = "a"
       THEN /\ Len(abtest.results_a) < MaxResults
            /\ abtest' = [abtest EXCEPT !.results_a = Append(@, metric_value),
                                        !.call = "log_result", !.raised = "None"]
       ELSE IF version = "b"
       THEN /\ Len(abtest.results_b) < MaxResults
            /\ abtest' = [abtest EXCEPT !.results_b = Append(@, metric_value),
                                        !.call = "log_result", !.raised = "None"]
       ELSE abtest' = [abtest EXCEPT !.call = "log_result", !.raised = "ValueError"]
    /\ UNCHANGED <<tracker, runner, context, storeVars, resolverVars, diffVars,
                   monitorVars>>

\* ABTest.get_result()
ABGetResult ==
    /\ abtest' = [abtest EXCEPT
                    !.call = "get_result",
                    !.raised = get_result(abtest.results_a, abtest.results_b).raised,
                    !.result = get_result(abtest.results_a, abtest.results_b).result]
    /\ UNCHANGED <<tracker, runner, context, storeVars, resolverVars, diffVars,
                   monitorVars>>

NextABTest ==
    \/ \E version \in {"a", "b", "c"}, metric_value \in {0, 1, 2} :
          ABLogResult(version, metric_value)
    \/ ABGetResult

SpecABTest == InitMonitor /\ [][NextABTest]_vars

-----------------------------------------------------------------------------
(* Properties of the resolver, checked under SpecResolve *)

Called(c) == c.out # NoneStr

IsStableArg(label) == label \in {"None", "STABLE"}

Text_1_0_0 == <<"1", ".", "0", ".", "0">>

TripleOf(s) ==
    LET q == _parse_version(s) IN <<q.major, q.minor, q.patch>>

IsDigits(s) == Len(s) >= 1 /\ \A i \in 1..Len(s) : IsDigit(s[i])

IsAlphas(s) == Len(s) >= 1 /\ \A i \in 1..Len(s) : IsAlpha(s[i])

From(s, i) == SubSeq(s, i, Len(s))

\* LABEL[.NUMBER] of the grammar MAJOR.MINOR.PATCH[-LABEL[.NUMBER]].
IsLabelPart(s) ==
    \/ IsAlphas(s)
    \/ \E m \in 1..Len(s) :
          s[m] = "." /\ IsAlphas(SubSeq(s, 1, m - 1)) /\ IsDigits(From(s, m + 1))

\* PATCH[-LABEL[.NUMBER]]
IsPatchPart(s) ==
    \/ IsDigits(s)
    \/ \E k \in 1..Len(s) :
          s[k] = "-" /\ IsDigits(SubSeq(s, 1, k - 1)) /\ IsLabelPart(From(s, k + 1))

\* The grammar of version strings, stated on the text and not by the parser.
MatchesGrammar(s) ==
    \E i, j \in 1..Len(s) :
        /\ i < j
        /\ s[i] = "."
        /\ s[j] = "."
        /\ IsDigits(SubSeq(s, 1, i - 1))
        /\ IsDigits(SubSeq(s, i + 1, j - 1))
        /\ IsPatchPart(From(s, j + 1))

\* The text of a requested label, as the claims name it.
LabelText(label) ==
    CASE label = "SNAPSHOT"  -> <<"S", "N", "A", "P", "S", "H", "O", "T">>
      [] label = "MILESTONE" -> <<"M">>
      [] label = "RC"        -> <<"R", "C">>
      [] OTHER               -> NoneStr

\* C1 as claimed: with no current version the result is exactly "1.0.0" for
\* every bump, every label and every number.
C1_AbsentAlwaysGivesPlain100 ==
    (Called(last) /\ last.cur = NoneStr) => last.out = Text_1_0_0

\* C1, amended: with no current version the numeric triple of the result is
\* 1.0.0 for every bump, label and number; the result is exactly "1.0.0" when
\* the label is absent or STABLE, and "1.0.0-LABEL..." otherwise.
C1_AbsentGives100Triple ==
    (Called(last) /\ last.cur = NoneStr) =>
        /\ _parse_version(last.out).matched
        /\ TripleOf(last.out) = <<1, 0, 0>>
        /\ SubSeq(last.out, 1, 5) = Text_1_0_0
        /\ IsStableArg(last.label) => last.out = Text_1_0_0
        /\ ~IsStableArg(last.label) =>
              /\ Len(last.out) > 6
              /\ last.out[6] = "-"
              /\ _parse_version(last.out).pre_label = LabelText(last.label)

C1_Witness ==
    /\ Called(last)
    /\ last.cur = NoneStr
    /\ last.bump = "MINOR"
    /\ last.label = "SNAPSHOT"
    /\ last.out # Text_1_0_0

BothPatchStable ==
    /\ Called(prev)
    /\ Called(last)
    /\ prev.bump = "PATCH" /\ prev.label = "STABLE"
    /\ last.bump = "PATCH" /\ last.label = "STABLE"
    /\ last.cur = prev.out

PatchTwiceIncreases ==
    /\ TripleOf(prev.cur)[3] < TripleOf(prev.out)[3]
    /\ TripleOf(prev.out)[3] < TripleOf(last.out)[3]
    /\ TripleOf(prev.out)[1] = TripleOf(prev.cur)[1]
    /\ TripleOf(prev.out)[2] = TripleOf(prev.cur)[2]
    /\ TripleOf(last.out)[1] = TripleOf(prev.cur)[1]
    /\ TripleOf(last.out)[2] = TripleOf(prev.cur)[2]

\* C2 as claimed: for every (parseable) version string V, PATCH+STABLE applied
\* twice strictly increases the patch component twice, major and minor fixed.
C2_PatchStableTwiceAnyVersion ==
    (BothPatchStable /\ _parse_version(prev.cur).matched) => PatchTwiceIncreases

\* C2, amended: for every parseable version string V that carries no
\* pre-release label, PATCH+STABLE applied twice strictly increases the
\* patch component twice, major and minor fixed.
C2_PatchStableTwiceUnlabelled ==
    (/\ BothPatchStable
     /\ _parse_version(prev.cur).matched
     /\ _parse_version(prev.cur).pre_label = NoneStr) => PatchTwiceIncreases

C2_Witness ==
    /\ BothPatchStable
    /\ prev.cur = <<"1", ".", "2", ".", "9">>
    /\ last.out = <<"1", ".", "2", ".", "1", "1">>

\* C3: for every parseable current version with a pre-release label,
\* PATCH+STABLE returns the current MAJOR.MINOR.PATCH, not incremented and
\* without a label.
C3_PromotionKeepsTriple ==
    (/\ Called(last)
     /\ last.cur # NoneStr
     /\ _parse_version(last.cur).matched
     /\ _parse_version(last.cur).pre_label # NoneStr
     /\ last.bump = "PATCH"
     /\ last.label = "STABLE") =>
        /\ _parse_version(last.out).matched
        /\ TripleOf(last.out) = TripleOf(last.cur)
        /\ _parse_version(last.out).pre_label = NoneStr
        /\ \A i \in 1..Len(last.out) : last.out[i] # "-"
        /\ last.cur = <<"1", ".", "0", ".", "0", "-", "R", "C", ".", "2">>
              => last.out = Text_1_0_0

C3_Witness ==
    /\ Called(last)
    /\ last.cur = <<"1", ".", "0", ".", "0", "-", "R", "C", ".", "2">>
    /\ last.bump = "PATCH"
    /\ last.label = "STABLE"
    /\ last.out = Text_1_0_0

InPromotionCase(c) ==
    /\ _parse_version(c.cur).pre_label # NoneStr
    /\ c.bump = "PATCH"
    /\ c.label = "STABLE"

IsCall(c, cur, bump, label, number) ==
    /\ Called(c)
    /\ c.cur = cur
    /\ c.bump = bump
    /\ c.label = label
    /\ c.number = number

\* C5: the documented examples of _calculate_next_version:
\* ("1.0.0-RC.1", PATCH, RC, 2) gives "1.0.0-RC.2", ("1.0.0", PATCH, SNAPSHOT)
\* gives "1.0.1-SNAPSHOT" and ("1.0.0", MINOR, MILESTONE, 1) gives "1.1.0-M.1".
C5_DocumentedExamples ==
    /\ IsCall(last, <<"1", ".", "0", ".", "0", "-", "R", "C", ".", "1">>, "PATCH", "RC", 2)
          => last.out = <<"1", ".", "0", ".", "0", "-", "R", "C", ".", "2">>
    /\ IsCall(last, Text_1_0_0, "PATCH", "SNAPSHOT", NoNumber)
          => last.out = <<"1", ".", "0", ".", "1", "-", "S", "N", "A", "P", "S", "H", "O", "T">>
    /\ IsCall(last, Text_1_0_0, "MINOR", "MILESTONE", 1)
          => last.out = <<"1", ".", "1", ".", "0", "-", "M", ".", "1">>

\* The two documented examples that do not advance a release candidate.
C5_OtherExamplesHold ==
    /\ IsCall(last, Text_1_0_0, "PATCH", "SNAPSHOT", NoNumber)
          => last.out = <<"1", ".", "0", ".", "1", "-", "S", "N", "A", "P", "S", "H", "O", "T">>
    /\ IsCall(last, Text_1_0_0, "MINOR", "MILESTONE", 1)
          => last.out = <<"1", ".", "1", ".", "0", "-", "M", ".", "1">>

\* The canonical text of a triple.
TripleText(t) ==
    IntToStr(t[1]) \o <<".">> \o IntToStr(t[2]) \o <<".">> \o IntToStr(t[3])

\* C6: the result is exactly "MAJOR.MINOR.PATCH" when the requested label is
\* absent or STABLE (any number ignored), "MAJOR.MINOR.PATCH-LABEL" for
\* SNAPSHOT, M or RC without a number and "MAJOR.MINOR.PATCH-LABEL.NUMBER"
\* with one; the label of the current version is not carried over.
C6_Formatting ==
    Called(last) =>
        LET q    == _parse_version(last.out)
            base == TripleText(<<q.major, q.minor, q.patch>>)
        IN  /\ q.matched
            /\ IsStableArg(last.label) =>
                  /\ last.out = base
                  /\ q.pre_label = NoneStr
                  /\ q.pre_number = NoNumber
            /\ (~IsStableArg(last.label) /\ last.number = NoNumber) =>
                  /\ last.out = base \o <<"-">> \o LabelText(last.label)
                  /\ q.pre_label = LabelText(last.label)
                  /\ q.pre_number = NoNumber
            /\ (~IsStableArg(last.label) /\ last.number # NoNumber) =>
                  /\ last.out = base \o <<"-">> \o LabelText(last.label)
                                     \o <<".">> \o IntToStr(last.number)
                  /\ q.pre_label = LabelText(last.label)
                  /\ q.pre_number = last.number

C6_Witness ==
    /\ Called(last)
    /\ _parse_version(last.cur).pre_label = <<"b", "e", "t", "a">>
    /\ last.label = "MILESTONE"
    /\ last.number = 0
    /\ last.out = <<"9", ".", "1", "0", ".", "8", "-", "M", ".", "0">>

\* C7: a current version string that does not match
\* MAJOR.MINOR.PATCH[-LABEL[.NUMBER]] gives, for every bump, label and
\* number, the result an absent current version gives.
C7_NonMatchingTreatedAsAbsent ==
    (/\ Called(last)
     /\ last.cur # NoneStr
     /\ ~MatchesGrammar(last.cur)) =>
        /\ TripleOf(last.out) = <<1, 0, 0>>
        /\ last.out = _calculate_next_version(NoneStr, last.bump, last.label, last.number)

-----------------------------------------------------------------------------
(* Properties of the version store, checked under Spec *)

SameKey(r1, r2) == r1.name = r2.name /\ r1.version = r2.version

SameTexts(r1, r2) ==
    r1.system_prompt = r2.system_prompt /\ r1.user_prompt = r2.user_prompt

RowsOf(pv, name) == {r \in pv : r.name = name}

\* C8: in every reachable state no two stored versions have the same
\* (name, version) pair.
C8_NameVersionUnique ==
    \A r1, r2 \in prompt_versions : SameKey(r1, r2) => r1 = r2

C8_Witness ==
    /\ op.kind = "save_version"
    /\ op.raised = "None"
    /\ op.replaced # 0
    /\ \E r1, r2 \in prompt_versions :
          /\ r1.id = op.id
          /\ r2.version = r1.version
          /\ r2.name # r1.name

\* C9 as claimed: once (name, version) is stored, no later operation changes
\* the system or user text stored for that (name, version).
C9_VersionNeverMutated ==
    [][\A r \in prompt_versions : \A r2 \in prompt_versions' :
          SameKey(r, r2) => SameTexts(r, r2)]_vars

\* C9, amended: a stored row is never changed in place, and the texts stored
\* for a (name, version) change in one operation only when save_version or
\* import_prompt is called with overwrite=True, which deletes the row and
\* inserts a new row, with a new id, under the same (name, version).
C9_MutatedOnlyByOverwrite ==
    [][/\ \A r \in prompt_versions : \A r2 \in prompt_versions' :
             r.id = r2.id => r2 = r
       /\ (\E r \in prompt_versions : \E r2 \in prompt_versions' :
             SameKey(r, r2) /\ ~SameTexts(r, r2))
          => /\ op'.kind \in {"save_version", "import_prompt"}
             /\ op'.overwrite
             /\ op'.raised = "None"]_vars

C9_Witness ==
    /\ op.kind = "save_version"
    /\ op.overwrite
    /\ op.raised = "None"
    /\ op.replaced # 0
    /\ \E r \in prompt_versions :
          /\ r.id = op.id
          /\ r.id > op.replaced
          /\ r.name = op.name
          /\ r.version = op.version

\* C10: rollback(name, to_version) for an existing to_version always adds
\* exactly one row for name, carrying the target's texts, and leaves every
\* row stored before unchanged.
C10_RollbackAlwaysAddsRow ==
    [][(/\ op'.kind = "rollback"
        /\ RowsWithKey(prompt_versions, op'.name, op'.arg_version) # {})
       => LET old == CHOOSE r \in RowsWithKey(prompt_versions, op'.name,
                                            op'.arg_version) : TRUE
          IN  /\ op'.raised = "None"
              /\ Cardinality(RowsOf(prompt_versions', op'.name))
                    = Cardinality(RowsOf(prompt_versions, op'.name)) + 1
              /\ prompt_versions \subseteq prompt_versions'
              /\ \E new \in prompt_versions' \ prompt_versions :
                    /\ new.id = op'.id
                    /\ new.name = op'.name
                    /\ SameTexts(new, old)]_vars

-----------------------------------------------------------------------------
(* Versions saved by bump only: on a fresh database, save_version is       *)
(* called for one prompt name with a bump_type and without a version, with *)
(* every pre_label and pre_number; each stored row gets a later timestamp  *)
(* than the rows before it.                                                *)

NextBump ==
    \E bump_type \in VersionBump, pre_label \in LabelArgs, pre_number \in NumberArgs :
       SaveVersion(<<"p">>, [system_prompt |-> <<"A">>, user_prompt |-> <<"U">>],
                   NoneStr, bump_type, pre_label, pre_number, FALSE)

SpecBump == Init /\ [][NextBump]_vars

\* The triple a is lexicographically at most the triple b.
TripleLeq(a, b) ==
    \/ a[1] < b[1]
    \/ a[1] = b[1] /\ a[2] < b[2]
    \/ a[1] = b[1] /\ a[2] = b[2] /\ a[3] <= b[3]

\* The version of the latest row stored for the name (there is one).
LatestOf(pv, name) == (CHOOSE r \in get_latest_version(pv, name) : TRUE).version

-----------------------------------------------------------------------------
(* Metrics and their versions.  The store is followed from a database that *)
(* already holds two versions, (p, "1.0.0") and (q, "1.0.0"), saved by two *)
(* calls of save_version on a fresh database; from there the calls are     *)
(* save_version, log_metrics and delete_version.                           *)

EmptyDb == [pv |-> {}, pm |-> {}, seqv |-> 0, clock |-> 0]

\* The database after save_version("p", "A", "U", version="1.0.0") and
\* save_version("q", "B", "V", version="1.0.0").
SeededDb ==
    save_version(
        save_version(EmptyDb, 0, <<"p">>, <<"A">>, <<"U">>,
                     <<"1", ".", "0", ".", "0">>, "None", "None", NoNumber,
                     FALSE).db,
        0, <<"q">>, <<"B">>, <<"V">>, <<"1", ".", "0", ".", "0">>,
        "None", "None", NoNumber, FALSE).db

InitOwned ==
    /\ prompt_versions = SeededDb.pv
    /\ prompt_metrics = SeededDb.pm
    /\ annotations = {}
    /\ seq = [versions |-> SeededDb.seqv, metrics |-> 0, annotations |-> 0]
    /\ clock = SeededDb.clock
    /\ op = NoOp
    /\ ncalls = 0
    /\ git = 0
    /\ current_version = NoneStr
    /\ last = NoCall
    /\ prev = NoCall
    /\ DiffIdle
    /\ MonitorIdle
    /\ ToolsIdle

NextOwned ==
    \/ \E n \in Names, p \in Prompts, a \in SaveArgs, o \in BOOLEAN :
          SaveVersion(n, p, a.version, a.bump_type, a.pre_label, NoNumber, o)
    \/ \E n \in Names, v \in KnownVersions : DeleteVersion(n, v)
    \/ \E n \in Names, v \in KnownVersions : LogMetrics(n, v, 1)

SpecOwned == InitOwned /\ [][NextOwned]_vars

-----------------------------------------------------------------------------
(* Imports into a database that holds versions and metrics: from the       *)
(* database with (p, "1.0.0") and (q, "1.0.0"), metrics are logged and     *)
(* files for p are imported whose entries name a stored version with other *)
(* texts, and a version that is not stored, with two different texts.      *)

WideEntries ==
    { [version |-> <<"1", ".", "0", ".", "0">>,
       system_prompt |-> <<"B">>, user_prompt |-> <<"V">>],
      [version |-> <<"v", "1">>,
       system_prompt |-> <<"A">>, user_prompt |-> <<"U">>],
      [version |-> <<"v", "1">>,
       system_prompt |-> <<"B">>, user_prompt |-> <<"V">>] }

WideFiles ==
    { [prompt_name |-> <<"p">>, versions |-> vs] :
        vs \in UNION {[1..k -> WideEntries] : k \in 1..MaxFileLen} }

NextImport ==
    \/ \E f \in WideFiles, o \in BOOLEAN, b \in {"None", "PATCH"} :
          ImportPrompt(f, o, b)
    \/ \E n \in Names, v \in KnownVersions : LogMetrics(n, v, 1)

SpecImport == InitOwned /\ [][NextImport]_vars

-----------------------------------------------------------------------------
(* TestContext, the context manager test_version returns.  The body of the *)
(* with statement calls log() any number of times up to MaxLogs and may    *)
(* raise; other calls on the versioner may be made while the context is    *)
(* open.                                                                   *)

MaxLogs == 2

\* dict.update(other): the keys of other take other's values.
Update(d, other) ==
    {kv \in d : \A o \in other : o[1] # kv[1]} \cup other

\* The dict log() hands to update: every key is written on every call.
\* quality_score stands for the keys of the dict; None is NoNumber.
Logged(quality_score) == {<<"quality_score", quality_score>>}

\* **self.metrics as log_metrics receives it: an absent key is the default.
Keyword(d, key) ==
    IF \E kv \in d : kv[1] = key
    THEN (CHOOSE kv \in d : kv[1] = key)[2]
    ELSE NoNumber

\* The test of __exit__ taken as always true.
ExitLogsAlways(metrics) == TRUE

\* "if self.metrics": a dict is true when it is not empty.
ExitLogs(metrics) == metrics # EmptyDict

\* PromptVersioner.test_version: TestContext(self, name, version), entered.
TestVersion(name, version) ==
    /\ context.state # "entered"
    /\ Tick
    /\ context' = [NoContext EXCEPT !.state = "entered", !.name = name,
                                    !.version = version]
    /\ op' = [NoOp EXCEPT !.kind = "test_version", !.name = name,
                          !.arg_version = version]
    /\ UNCHANGED <<prompt_versions, prompt_metrics, annotations, seq, clock, git>>
    /\ UNCHANGED <<tracker, runner, abtest, resolverVars, diffVars, monitorVars>>

\* TestContext.log
ContextLog(quality_score) ==
    /\ context.state = "entered"
    /\ context.nlogs < MaxLogs
    /\ context' = [context EXCEPT !.metrics = Update(@, Logged(quality_score)),
                                  !.nlogs = @ + 1,
                                  !.last = quality_score]
    /\ UNCHANGED <<storeVars, tracker, runner, abtest, resolverVars, diffVars, monitorVars>>

\* TestContext.__exit__, after a body that returned or raised: log_metrics
\* with the dict as keyword arguments when the dict is not empty.  The
\* method returns None, so an exception of the body is not suppressed.
ContextExit(body_raised) ==
    /\ context.state = "entered"
    /\ LET v == get_version(prompt_versions, context.name, context.version)
       IN  IF ~ExitLogs(context.metrics)
           THEN /\ context' = [context EXCEPT !.state = "exited",
                                              !.body_raised = body_raised]
                /\ UNCHANGED <<prompt_metrics, seq, op>>
           ELSE IF v = {}
           THEN /\ context' = [context EXCEPT !.state = "exited",
                                              !.body_raised = body_raised,
                                              !.raised = "ValueError"]
                /\ op' = [NoOp EXCEPT !.kind = "log_metrics",
                                      !.name = context.name,
                                      !.arg_version = context.version,
                                      !.raised = "ValueError"]
                /\ UNCHANGED <<prompt_metrics, seq>>
           ELSE /\ context' = [context EXCEPT !.state = "exited",
                                              !.body_raised = body_raised]
                /\ prompt_metrics' = prompt_metrics \cup
                       {[id |-> seq.metrics + 1,
                         version_id |-> (CHOOSE r \in v : TRUE).id,
                         quality_score |-> Keyword(context.metrics, "quality_score")]}
                /\ seq' = [seq EXCEPT !.metrics = @ + 1]
                /\ op' = [NoOp EXCEPT !.kind = "log_metrics",
                                      !.name = context.name,
                                      !.arg_version = context.version,
                                      !.id = seq.metrics + 1]
    /\ UNCHANGED <<prompt_versions, annotations, clock, git, ncalls>>
    /\ UNCHANGED <<tracker, runner, abtest, resolverVars, diffVars, monitorVars>>

\* The values log() is called with: None, 0 and 1.
LoggedValues == {NoNumber, 0, 1}

NextContext ==
    \/ \E n \in Names, v \in KnownVersions : TestVersion(n, v)
    \/ \E q \in LoggedValues : ContextLog(q)
    \/ \E b \in BOOLEAN : ContextExit(b)
    \/ \E n \in Names, v \in KnownVersions : DeleteVersion(n, v)

SpecContext == InitOwned /\ [][NextContext]_vars

\* The ids of the rows stored under (name, version).
IdsOfKey(pv, name, version) == {r.id : r \in RowsWithKey(pv, name, version)}

\* C11: after every call each stored metric record's version_id is the id
\* of a stored version, and delete_version(name, version) removes the
\* version, every metric record of that version and no other metric record.
C11_MetricsOwnedByVersion ==
    [][/\ \A m \in prompt_metrics' : \E r \in prompt_versions' : r.id = m.version_id
       /\ op'.kind = "delete_version"
          => LET ids == IdsOfKey(prompt_versions, op'.name, op'.arg_version)
             IN  /\ prompt_versions' = {r \in prompt_versions : r.id \notin ids}
                 /\ prompt_metrics'
                      = {m \in prompt_metrics : m.version_id \notin ids}]_vars

\* A delete_version that removed the one version's metric record and kept
\* the other version's.
C11_Witness ==
    /\ op.kind = "delete_version"
    /\ op.raised = "None"
    /\ seq.metrics = 2
    /\ Cardinality(prompt_metrics) = 1
    /\ Cardinality(prompt_versions) = 1
    /\ \A m \in prompt_metrics : \E r \in prompt_versions : r.id = m.version_id

\* C12: a save_version whose resulting version string is already stored for
\* the name raises ValueError and leaves versions and metrics as they were
\* when overwrite is False; with overwrite=True it succeeds and exactly one
\* version is then stored under that (name, version).
C12_SaveOnExistingVersion ==
    [][(/\ op'.kind = "save_version"
        /\ RowsWithKey(prompt_versions, op'.name, op'.version) # {})
       => IF op'.overwrite
          THEN /\ op'.raised = "None"
               /\ Cardinality(RowsWithKey(prompt_versions', op'.name, op'.version)) = 1
               /\ \E r \in RowsWithKey(prompt_versions', op'.name, op'.version) :
                     r.id = op'.id
          ELSE /\ op'.raised = "ValueError"
               /\ prompt_versions' = prompt_versions
               /\ prompt_metrics' = prompt_metrics]_vars

\* A refused save_version on a store that holds metrics.
C12_Witness ==
    /\ op.kind = "save_version"
    /\ ~op.overwrite
    /\ op.raised = "ValueError"
    /\ RowsWithKey(prompt_versions, op.name, op.version) # {}
    /\ prompt_metrics # {}

-----------------------------------------------------------------------------
(* Properties of diff and compare_versions, checked under Spec *)

Stored(name, version) == RowsWithKey(prompt_versions, name, version) # {}

\* C13: diff(name, version1, version2) with a version that is not stored for
\* name raises a ValueError that names a missing version and hands no text
\* to the diff engine; with both versions stored it diffs the stored texts.
C13_DiffOfMissingVersionRaises ==
    op.kind = "diff" =>
        IF ~Stored(op.name, op.arg_version) \/ ~Stored(op.name, op.arg_version2)
        THEN /\ op.raised = "ValueError"
             /\ op.missing \in {op.arg_version, op.arg_version2}
             /\ ~Stored(op.name, op.missing)
             /\ op.compared = NoDiff
        ELSE /\ op.raised = "None"
             /\ \E r1 \in RowsWithKey(prompt_versions, op.name, op.arg_version) :
                \E r2 \in RowsWithKey(prompt_versions, op.name, op.arg_version2) :
                   op.compared = [old_system |-> r1.system_prompt,
                                  old_user |-> r1.user_prompt,
                                  new_system |-> r2.system_prompt,
                                  new_user |-> r2.user_prompt]

\* A diff of a stored version against one that is not stored.
C13_Witness ==
    /\ op.kind = "diff"
    /\ Stored(op.name, op.arg_version)
    /\ ~Stored(op.name, op.arg_version2)
    /\ op.raised = "ValueError"
    /\ op.missing = op.arg_version2

\* C14: compare_versions(name, versions) is a failure whenever fewer than
\* two of the requested versions are stored, and a normal result holds every
\* requested version.
C14_CompareFewerThanTwoFails ==
    op.kind = "compare_versions" =>
        /\ Cardinality({i \in 1..Len(op.requested) :
                           Stored(op.name, op.requested[i])}) < 2
              => op.raised # "None"
        /\ op.raised = "None"
              => \A i \in 1..Len(op.requested) :
                    \E j \in 1..Len(op.comparison) :
                       op.comparison[j].version = op.requested[i]

-----------------------------------------------------------------------------
(* Properties of create_inline_diff, checked under SpecInline *)

\* The segments of one side of the diff, in order.
NewSide(segments) == SelectSeq(segments, LAMBDA g : g.type # "removed")

OldSide(segments) == SelectSeq(segments, LAMBDA g : g.type # "added")

\* The texts of the segments, one after the other.
RECURSIVE ConcatTexts(_)
ConcatTexts(segments) ==
    IF segments = <<>> THEN <<>>
    ELSE Head(segments).text \o ConcatTexts(Tail(segments))

\* The texts of the segments, with one space between two of them.
RECURSIVE SpacedTexts(_)
SpacedTexts(segments) ==
    IF segments = <<>> THEN <<>>
    ELSE IF Len(segments) = 1 THEN segments[1].text
    ELSE segments[1].text \o <<" ">> \o SpacedTexts(Tail(segments))

\* The tokens of the segments, in order.
RECURSIVE TokensOf(_)
TokensOf(segments) ==
    IF segments = <<>> THEN <<>>
    ELSE split(Head(segments).text) \o TokensOf(Tail(segments))

\* The text with every run of white space collapsed to one space and no
\* white space at either end.
Normalised(text) == join(split(text))

\* C15 as claimed: the texts of the new side's segments, concatenated,
\* are exactly the new text.
C15_NewSideConcatenationIsNewText ==
    inline.called => ConcatTexts(NewSide(inline.segments)) = new_text

\* C15, amended: the texts of the new side's segments, joined by single
\* spaces, are the new text with its white space normalised; they are the
\* new text itself exactly when the new text is in that form.
C15_NewSideJoinedIsNormalisedNewText ==
    inline.called =>
        /\ SpacedTexts(NewSide(inline.segments)) = Normalised(new_text)
        /\ (SpacedTexts(NewSide(inline.segments)) = new_text)
              <=> (new_text = Normalised(new_text))

\* An unchanged segment followed by an added one, for a new text in
\* normal form: joined they are the new text, concatenated they are not.
C15_Witness ==
    /\ inline.called
    /\ new_text = Normalised(new_text)
    /\ Len(NewSide(inline.segments)) >= 2
    /\ SpacedTexts(NewSide(inline.segments)) = new_text
    /\ ConcatTexts(NewSide(inline.segments)) # new_text

\* C16: the tokens of the unchanged and removed segments, in order, are the
\* old text's tokens, those of the unchanged and added segments the new
\* text's tokens, and no segment is empty.
C16_SegmentsPartitionTokens ==
    inline.called =>
        /\ TokensOf(OldSide(inline.segments)) = split(old_text)
        /\ TokensOf(NewSide(inline.segments)) = split(new_text)
        /\ \A n \in 1..Len(inline.segments) :
              /\ inline.segments[n].type \in {"unchanged", "added", "removed"}
              /\ split(inline.segments[n].text) # <<>>

\* A diff of four segments: two unchanged ones, a removed and an added one.
C16_Witness ==
    /\ inline.called
    /\ Len(inline.segments) = 4
    /\ Cardinality({n \in 1..4 : inline.segments[n].type = "unchanged"}) = 2
    /\ \E n \in 1..4 : inline.segments[n].type = "removed"
    /\ \E n \in 1..4 : inline.segments[n].type = "added"
    /\ Len(split(old_text)) = 3
    /\ Len(split(new_text)) = 3

\* C17 as claimed: for identical texts, the empty text included, the diff
\* is one unchanged segment holding the full text.
C17_IdenticalIsOneUnchangedSegment ==
    (inline.called /\ old_text = new_text)
        => inline.segments = <<[type |-> "unchanged", text |-> new_text]>>

\* C17, amended: for identical texts the diff has no added and no removed
\* segment; it is one unchanged segment holding the text in normal form
\* when the text has a word, and it has no segment when the text has none.
C17_IdenticalIsUnchangedWords ==
    (inline.called /\ old_text = new_text)
        => IF split(new_text) = <<>>
           THEN inline.segments = <<>>
           ELSE inline.segments
                   = <<[type |-> "unchanged", text |-> Normalised(new_text)]>>

C17_Witness ==
    /\ inline.called
    /\ old_text = new_text
    /\ Len(split(new_text)) >= 2
    /\ new_text # Normalised(new_text)
    /\ Len(inline.segments) = 1
    /\ inline.segments[1].type = "unchanged"

\* C18 as claimed: for an empty old text and a new text that is not empty,
\* the diff is one added segment holding all of the new text.
C18_EmptyOldIsOneAddedSegment ==
    (inline.called /\ old_text = <<>> /\ new_text # <<>>)
        => inline.segments = <<[type |-> "added", text |-> new_text]>>

\* C18, amended: for an empty old text and a new text with at least one
\* word, the diff is one added segment holding the new text in normal form.
C18_EmptyOldIsOneAddedWords ==
    (inline.called /\ old_text = <<>> /\ split(new_text) # <<>>)
        => inline.segments = <<[type |-> "added", text |-> Normalised(new_text)]>>

\* old "" and new "a b a": one added segment "a b a".
C18_Witness ==
    /\ inline.called
    /\ old_text = <<>>
    /\ new_text = <<"a", " ", "b", " ", "a">>
    /\ inline.segments = <<[type |-> "added", text |-> new_text]>>

-----------------------------------------------------------------------------
(* Properties of the diff of two versions, checked under SpecEngine *)

IsOne(r) == r.num = r.den

\* C19: ComputeDiff(X, Y, X, Y) has system, user and total similarity 1.0,
\* and the version is not reported as changed.
C19_IdenticalContentIsFullSimilarity ==
    (/\ engine.called
     /\ engine.new_system = engine.old_system
     /\ engine.new_user = engine.old_user)
    => /\ IsOne(engine.diff.system_similarity)
       /\ IsOne(engine.diff.user_similarity)
       /\ IsOne(engine.diff.total_similarity)
       /\ ~engine.has_changes

\* ComputeDiff(X, Y, X, Y) for an X without tokens and a Y of two tokens.
C19_Witness ==
    /\ engine.called
    /\ engine.new_system = engine.old_system
    /\ engine.new_user = engine.old_user
    /\ split(engine.old_system) = <<>>
    /\ Len(split(engine.old_user)) = 2
    /\ IsOne(engine.diff.total_similarity)
    /\ ~engine.has_changes

-----------------------------------------------------------------------------
(* Properties of the alert handlers, checked under SpecMonitor *)

\* The invocations made during check c, in the order they were made.
InvocationsOf(c) == SelectSeq(invocations, LAMBDA v : v.check = c)

\* C20: for every check_regression call that has returned, the invocations
\* made during it are, in this order, for each alert in turn every handler
\* registered when it was called, in registration order: one invocation per
\* alert and handler, none for a handler registered later, none added after
\* the return.
C20_HandlersCalledOncePerAlertInOrder ==
    \A c \in 1..Len(returned) :
        LET nh == returned[c].nhandlers
            al == returned[c].alerts
            iv == InvocationsOf(c)
        IN  /\ Len(iv) = Len(al) * nh
            /\ \A n \in 1..Len(iv) :
                  /\ iv[n].alert = al[((n - 1) \div nh) + 1]
                  /\ iv[n].handler = ((n - 1) % nh) + 1
            /\ \A n \in 1..Len(invocations) :
                  invocations[n].check = c => invocations[n].handler <= nh

\* Two checks with two alerts each have returned, the first with one
\* handler registered, which raises, the second with two.
C20_Witness ==
    /\ mon.pc = "idle"
    /\ Len(returned) = 2
    /\ returned[1].nhandlers = 1
    /\ returned[2].nhandlers = 2
    /\ Len(returned[1].alerts) = 2
    /\ Len(returned[2].alerts) = 2
    /\ handlers[1].raises
    /\ Len(invocations) = 6

\* C21: a handler that raises during check_regression is isolated: in every
\* check that has ended and in which a handler raised, every handler
\* registered at the call was still called for every alert, in order, the
\* call returned normally, and it returned the alerts it emitted.
C21_RaisingHandlerIsIsolated ==
    \A c \in 1..Len(returned) :
        LET nh == returned[c].nhandlers
            em == returned[c].emitted
            iv == InvocationsOf(c)
        IN  (\E n \in 1..Len(iv) : iv[n].raised) =>
                /\ ~returned[c].raised
                /\ returned[c].alerts = em
                /\ Len(iv) = Len(em) * nh
                /\ \A a \in 1..Len(em) : \A h \in 1..nh :
                      /\ iv[(a - 1) * nh + h].alert = em[a]
                      /\ iv[(a - 1) * nh + h].handler = h

\* A check with one alert has returned it after calling two handlers, the
\* first of which raised and the second of which did not.
C21_Witness ==
    /\ Len(returned) >= 1
    /\ returned[1].nhandlers = 2
    /\ Len(returned[1].emitted) = 1
    /\ returned[1].alerts = returned[1].emitted
    /\ ~returned[1].raised
    /\ Len(InvocationsOf(1)) = 2
    /\ InvocationsOf(1)[1].handler = 1
    /\ InvocationsOf(1)[1].raised
    /\ InvocationsOf(1)[2].handler = 2
    /\ ~InvocationsOf(1)[2].raised

-----------------------------------------------------------------------------
(* Properties of the alerts, checked under SpecAlerts and SpecTracker *)

\* The alerts check c returned for a metric.
AlertsFor(c, metric) ==
    SelectSeq(returned[c].alerts, LAMBDA alert : alert.metric_name = metric)

\* Whether a metric with a baseline other than 0 crossed its threshold in
\* percent: delta = (current - baseline) / baseline below the threshold for
\* quality, above it for the others.
Violated(metric, baseline_value, current_value, threshold) ==
    IF metric = "quality"
    THEN (current_value - baseline_value) * 100 < threshold * baseline_value
    ELSE (current_value - baseline_value) * 100 > threshold * baseline_value

\* C22: check_regression returns one alert for every metric that both
\* summaries have and whose change violates its threshold in its direction,
\* and no alert for any other metric with a baseline other than 0.
C22_OneAlertPerViolatedMetric ==
    \A c \in 1..Len(returned) : \A n \in 1..Len(MetricNames) :
        LET metric == MetricNames[n]
            baseline_value == MetricValue(returned[c].baseline, metric)
            current_value == MetricValue(returned[c].current, metric)
        IN  baseline_value # 0 =>
               Len(AlertsFor(c, metric)) =
                  IF /\ baseline_value # Absent
                     /\ current_value # Absent
                     /\ Violated(metric, baseline_value, current_value,
                                 returned[c].thresholds[metric])
                  THEN 1 ELSE 0

\* The cost went from 4 to 5, a rise of 25% against a threshold of 20%, the
\* other metrics are present and unchanged, and the check returned one
\* alert, for the cost.
C22_Witness ==
    /\ Len(returned) = 1
    /\ returned[1].baseline.avg_cost = 4
    /\ returned[1].current.avg_cost = 5
    /\ returned[1].baseline.avg_latency = 4
    /\ returned[1].current.avg_latency = 4
    /\ returned[1].baseline.avg_quality = 5
    /\ returned[1].current.avg_quality = 5
    /\ returned[1].baseline.success_rate = 3
    /\ returned[1].current.success_rate = 3
    /\ Len(returned[1].alerts) = 1
    /\ returned[1].alerts[1].metric_name = "cost"
    /\ returned[1].alerts[1].change = [num |-> 1, den |-> 4]

\* C23: a baseline of 0 makes the relative change 0: detect_regression
\* does not raise, gives a change of 0 to every metric whose baseline mean
\* is 0 and does not report it, and check_regression returns no alert for a
\* metric whose baseline value is 0, whatever the current value.
C23_ZeroBaselineIsNoRegression ==
    /\ tracker.called =>
          /\ ~tracker.result.raised
          /\ \A metric_name \in DOMAIN tracker.result.comparison :
                Sum(tracker.baseline_metrics[metric_name]) = 0 =>
                   /\ tracker.result.comparison[metric_name].mean_pct_change.num = 0
                   /\ metric_name \notin tracker.result.regressions
    /\ \A c \in 1..Len(returned) : \A n \in 1..Len(MetricNames) :
          MetricValue(returned[c].baseline, MetricNames[n]) = 0 =>
             /\ ~returned[c].raised
             /\ AlertsFor(c, MetricNames[n]) = <<>>

\* detect_regression was called on a quality_score of mean 0 in the
\* baseline and of mean 2 now, and check_regression on a cost of 0 in the
\* baseline and of 5 now, which returned an alert for the latency only.
C23_Witness ==
    /\ tracker.called
    /\ tracker.baseline_metrics = [quality_score |-> <<0, 0>>]
    /\ tracker.new_metrics = [quality_score |-> <<2>>]
    /\ tracker.result.regressions = {}
    /\ Len(returned) = 1
    /\ returned[1].baseline.avg_cost = 0
    /\ returned[1].current.avg_cost = 5
    /\ Len(returned[1].alerts) = 1
    /\ returned[1].alerts[1].metric_name = "latency"

-----------------------------------------------------------------------------
(* An absent pre_label and STABLE, checked under SpecResolve *)

\* What the call c returns when it is made with STABLE as its pre_label.
WithStable(c) == _calculate_next_version(c.cur, c.bump, "STABLE", c.number)

\* C26: an absent pre_label and STABLE format identically but bump
\* differently.  For a call without a pre_label: its triple formats to the
\* same string with STABLE; if the current version carries a label and the
\* bump is PATCH, the call increments the patch while the same call with
\* STABLE keeps the triple ("1.0.0-RC.2" gives "1.0.1" and "1.0.0"); if the
\* current version carries no label, the two calls return the same string
\* for every bump.
C26_AbsentLabelBumpsWhereStableKeeps ==
    (/\ Called(last)
     /\ last.label = "None"
     /\ last.cur # NoneStr
     /\ _parse_version(last.cur).matched) =>
        /\ FormatTriple(TripleOf(last.out), "None", last.number)
              = FormatTriple(TripleOf(last.out), "STABLE", last.number)
        /\ \A i \in 1..Len(last.out) : last.out[i] # "-"
        /\ \A i \in 1..Len(WithStable(last)) : WithStable(last)[i] # "-"
        /\ (_parse_version(last.cur).pre_label # NoneStr /\ last.bump = "PATCH") =>
              /\ TripleOf(WithStable(last)) = TripleOf(last.cur)
              /\ TripleOf(last.out)
                    = <<TripleOf(last.cur)[1], TripleOf(last.cur)[2],
                        TripleOf(last.cur)[3] + 1>>
              /\ last.cur = <<"1", ".", "0", ".", "0", "-", "R", "C", ".", "2">>
                    => /\ WithStable(last) = Text_1_0_0
                       /\ last.out = <<"1", ".", "0", ".", "1">>
        /\ _parse_version(last.cur).pre_label = NoneStr =>
              WithStable(last) = last.out

\* PATCH without a pre_label on "1.0.0-RC.2" returned "1.0.1".
C26_Witness ==
    /\ Called(last)
    /\ last.cur = <<"1", ".", "0", ".", "0", "-", "R", "C", ".", "2">>
    /\ last.bump = "PATCH"
    /\ last.label = "None"
    /\ last.out = <<"1", ".", "0", ".", "1">>
    /\ WithStable(last) = Text_1_0_0

-----------------------------------------------------------------------------
(* Bumps after a version that is not semantic, checked under Spec *)

\* The step is a save_version call for a bump, without a version, while
\* the name's most recent version is not a semantic version.
BumpAfterUnparsable ==
    /\ op'.kind = "save_version"
    /\ op'.arg_version = NoneStr
    /\ op'.bump_type \in VersionBump
    /\ get_latest_version(prompt_versions, op'.name) # {}
    /\ ~_parse_version(LatestOf(prompt_versions, op'.name)).matched

\* C25, as stated: a bump after a version that is not semantic computes
\* 1.0.0, and raises ValueError and stores nothing if 1.0.0 is stored for
\* the name and overwrite is false.
C25_RestartRaisesIf100Exists ==
    [][BumpAfterUnparsable
       => /\ TripleOf(op'.version) = <<1, 0, 0>>
          /\ (Stored(op'.name, Text_1_0_0) /\ ~op'.overwrite)
             => /\ op'.raised = "ValueError"
                /\ prompt_versions' = prompt_versions]_vars

\* C25, amended: a bump after a version that is not semantic computes
\* 1.0.0 with the requested label, whatever semantic versions are stored:
\* "1.0.0" itself without a label or with STABLE, a string that begins
\* with "1.0.0-" otherwise; the call raises ValueError and stores nothing
\* if that string is stored for the name and overwrite is false, and
\* stores it otherwise.
C25_RestartRaisesIfComputedExists ==
    [][BumpAfterUnparsable
       => /\ TripleOf(op'.version) = <<1, 0, 0>>
          /\ IF IsStableArg(op'.pre_label) THEN op'.version = Text_1_0_0
             ELSE op'.version
                    = Text_1_0_0 \o <<"-">> \o _parse_version(op'.version).pre_label
          /\ IF Stored(op'.name, op'.version) /\ ~op'.overwrite
             THEN /\ op'.raised = "ValueError"
                  /\ prompt_versions' = prompt_versions
             ELSE /\ op'.raised = "None"
                  /\ \E r \in prompt_versions' :
                        /\ r.id = op'.id
                        /\ r.name = op'.name
                        /\ r.version = op'.version
                        /\ r \notin prompt_versions]_vars

\* A bump without a label was refused: "1.0.0" is stored for the name, and
\* so is a more recent version that is not semantic.
C25_Witness ==
    /\ op.kind = "save_version"
    /\ op.arg_version = NoneStr
    /\ op.bump_type = "PATCH"
    /\ op.pre_label = "None"
    /\ ~op.overwrite
    /\ op.raised = "ValueError"
    /\ op.version = Text_1_0_0
    /\ Stored(op.name, Text_1_0_0)
    /\ ~_parse_version(LatestOf(prompt_versions, op.name)).matched

-----------------------------------------------------------------------------
(* Properties of run_test, checked under SpecRunner *)

\* The output of the call of run_test passes validation.
PassesValidation ==
    IF runner.test_case.validation_fn # "None"
    THEN runner.test_case.validation_fn = "True"
    ELSE IF runner.test_case.expected_output # "None"
         THEN runner.prompt_fn = runner.test_case.expected_output
    ELSE TRUE

\* C27: run_test returns success=True and error=None whenever prompt_fn,
\* validation_fn and metric_fn do not raise and the output passes
\* validation, and success=False with an error only when one of them raises
\* or validation fails.
C27_RunTestSucceedsWhenValid ==
    runner.called =>
       /\ (/\ runner.prompt_fn # "raises"
           /\ runner.test_case.validation_fn # "raises"
           /\ runner.metric_fn # "raises"
           /\ PassesValidation)
          => /\ runner.result.success
             /\ runner.result.error = "None"
       /\ (~runner.result.success /\ runner.result.error # "None")
          => \/ runner.prompt_fn = "raises"
             \/ runner.test_case.validation_fn = "raises"
             \/ runner.metric_fn = "raises"
             \/ ~PassesValidation

-----------------------------------------------------------------------------
(* Properties of ABTest, checked under SpecABTest *)

\* C28: get_result returns a result whenever both versions have a logged
\* result and raises ValueError only when one of them has none; in the
\* result the winner is version_b iff mean_b > mean_a, and the confidence
\* is min(1, min(count_a, count_b) / 30).
C28_GetResultWheneverBothLogged ==
    abtest.call = "get_result" =>
       /\ (abtest.results_a # <<>> /\ abtest.results_b # <<>>)
          => /\ abtest.raised = "None"
             /\ abtest.result.called
             /\ abtest.result.winner = "version_b"
                   <=> Sum(abtest.results_b) * Len(abtest.results_a)
                          > Sum(abtest.results_a) * Len(abtest.results_b)
             /\ abtest.result.confidence.num * ConfidenceSamples
                   = abtest.result.confidence.den
                       * (IF Len(abtest.results_a) < Len(abtest.results_b)
                          THEN Len(abtest.results_a) ELSE Len(abtest.results_b))
             /\ abtest.result.confidence.num <= abtest.result.confidence.den
       /\ abtest.raised # "None"
          => /\ abtest.raised = "ValueError"
             /\ abtest.results_a = <<>> \/ abtest.results_b = <<>>

-----------------------------------------------------------------------------
(* Properties of import_prompt, checked under SpecImport *)

\* The entries of the file whose version is stored when the import begins.
StoredEntries(name, file) ==
    {i \in 1..Len(file) : Stored(name, file[i].version)}

\* The entries of the file whose version is stored when their turn comes,
\* in an import that does not renumber: stored when the import begins, or
\* named by an earlier entry.
EntriesStoredAtTheirTurn(name, file) ==
    {i \in 1..Len(file) :
        \/ Stored(name, file[i].version)
        \/ \E j \in 1..(i - 1) : file[j].version = file[i].version}

\* The first entry of the file that names the version of entry i.
FirstNaming(file, i) ==
    file[CHOOSE j \in 1..i : /\ file[j].version = file[i].version
                            /\ \A k \in 1..(j - 1) : file[k].version # file[i].version]

\* C29: an import_prompt that returns reports imported + skipped = total,
\* the number of versions in the file.  With overwrite=False every stored
\* row and every metric record stays as it was, every entry whose version
\* is already stored is counted as skipped, and every other entry is
\* stored: one new row per imported entry, under the entry's version and
\* with its texts when the import does not renumber, in which case the
\* import also returns.
C29_ImportedPlusSkippedIsTotal ==
    [][op'.kind = "import_prompt" =>
         /\ op'.raised = "None" =>
               /\ op'.total = Len(op'.file)
               /\ op'.imported + op'.skipped = op'.total
         /\ (op'.raised = "None" /\ ~op'.overwrite) =>
               /\ prompt_versions \subseteq prompt_versions'
               /\ prompt_metrics' = prompt_metrics
               /\ Cardinality(prompt_versions')
                     = Cardinality(prompt_versions) + op'.imported
               /\ op'.skipped >= Cardinality(StoredEntries(op'.name, op'.file))
               /\ \A r \in prompt_versions' \ prompt_versions :
                     /\ r.name = op'.name
                     /\ \E i \in 1..Len(op'.file) :
                           /\ r.system_prompt = op'.file[i].system_prompt
                           /\ r.user_prompt = op'.file[i].user_prompt
         /\ (~op'.overwrite /\ op'.bump_type = "None") =>
               /\ op'.raised = "None"
               /\ op'.skipped
                     = Cardinality(EntriesStoredAtTheirTurn(op'.name, op'.file))
               /\ \A i \in 1..Len(op'.file) :
                     ~Stored(op'.name, op'.file[i].version) =>
                        \E r \in prompt_versions' \ prompt_versions :
                           /\ r.name = op'.name
                           /\ r.version = op'.file[i].version
                           /\ r.system_prompt = FirstNaming(op'.file, i).system_prompt
                           /\ r.user_prompt = FirstNaming(op'.file, i).user_prompt]_vars

\* An import without overwrite skipped the entry for the stored "1.0.0",
\* which kept its texts and its metric record, and stored the entry "v1".
C29_Witness ==
    /\ op.kind = "import_prompt"
    /\ op.raised = "None"
    /\ ~op.overwrite
    /\ op.bump_type = "None"
    /\ op.total = 2
    /\ op.imported = 1
    /\ op.skipped = 1
    /\ op.file[1].version = Text_1_0_0
    /\ op.file[2].version = <<"v", "1">>
    /\ \E r \in RowsWithKey(prompt_versions, <<"p">>, Text_1_0_0) :
          /\ r.system_prompt = <<"A">>
          /\ \E m \in prompt_metrics : m.version_id = r.id
    /\ \E r \in RowsWithKey(prompt_versions, <<"p">>, <<"v", "1">>) :
          r.system_prompt = op.file[2].system_prompt

-----------------------------------------------------------------------------
(* Properties of TestContext, checked under SpecContext *)

\* The metric records an exit of the context stores.
StoredOnExit == prompt_metrics' \ prompt_metrics

\* The step is an exit of the context.
IsExit == context.state = "entered" /\ context'.state = "exited"

\* The exit stores exactly one record, for the version of the context and
\* with the values of the last log() call, and raises nothing.
ExitStoresLast ==
    /\ context'.raised = "None"
    /\ Cardinality(StoredOnExit) = 1
    /\ \A m \in StoredOnExit :
          /\ m.quality_score = context.last
          /\ \E r \in RowsWithKey(prompt_versions, context.name, context.version) :
                m.version_id = r.id

\* C30 as stated: the exit stores one record with the values of the last
\* log() call if log() was called and none if it was not, whether or not
\* the body raised, and when the version does not exist the exit raises
\* ValueError and stores nothing.
C30_ExitRaisesWhenVersionMissing ==
    [][IsExit =>
         IF ~Stored(context.name, context.version)
         THEN context'.raised = "ValueError" /\ StoredOnExit = {}
         ELSE IF context.nlogs > 0
         THEN ExitStoresLast
         ELSE context'.raised = "None" /\ StoredOnExit = {}]_vars

\* C30, amended: when log() was never called the exit stores nothing and
\* raises nothing, whether or not the version exists; when log() was called
\* the exit raises ValueError and stores nothing if the version does not
\* exist, and otherwise stores exactly one record with the values of the
\* last log() call.  The body raising or not changes none of this.
C30_ExitRaisesOnlyAfterLog ==
    [][IsExit =>
         /\ context' = [context EXCEPT !.state = "exited",
                                       !.body_raised = context'.body_raised,
                                       !.raised = context'.raised]
         /\ IF context.nlogs = 0
            THEN context'.raised = "None" /\ StoredOnExit = {}
            ELSE IF ~Stored(context.name, context.version)
            THEN context'.raised = "ValueError" /\ StoredOnExit = {}
            ELSE ExitStoresLast
         /\ prompt_metrics \subseteq prompt_metrics']_vars

\* A context on a stored version exited after a body that logged 1, then
\* None, and raised: the one record stored for the exit carries None.
C30_Witness ==
    /\ context.state = "exited"
    /\ context.body_raised
    /\ context.nlogs = 2
    /\ context.last = NoNumber
    /\ context.raised = "None"
    /\ op.kind = "log_metrics"
    /\ \E m \in prompt_metrics : m.id = op.id /\ m.quality_score = NoNumber
    /\ Cardinality(prompt_metrics) = 1

====
